---- MODULE Spec2Model ----
(***************************************************************************)
(* StripedCuckooHashSet<int> (src/src/cuckoo/gemini-cuckoo-1.cpp): two     *)
(* tables of optional keys, an atomic capacity, an atomic live-count and   *)
(* NUM_LOCKS stripe mutexes.  Every public operation is split into the     *)
(* steps between which another thread can run: the capacity snapshot, each *)
(* mutex acquisition, each table read and each table write.                *)
(*                                                                         *)
(* Keys are non-negative C++ ints, so std::hash<int> is the identity and   *)
(* the 64-bit product in h2 never wraps (key < 2^31, multiplier < 2^32).   *)
(* A std::vector<std::optional<int>> is a function from its occupied       *)
(* indices to the keys stored there, together with its length (tsize).     *)
(***************************************************************************)
EXTENDS Integers, Sequences, FiniteSets, TLC

\* ------------------------------------------------------------------ bounds
InitCap == 2
MaxOps == 2
RehashCap == 64
ChainPairs == 50

\* --------------------------------------------------------------- constants
NUM_TABLES == 2
NUM_LOCKS == 32
MAX_KICK_LIMIT == 100
max_resize_attempts == 2
CapacityCeiling == 536870912
DefaultCapacity == 16
HashShift == 65536
MultHi == 34283
MultLo == 51819

NoKey == 0 - 1
NoThread == 0

Threads == {1, 2}
Keys == {0, 4, 8, 1, 3, 65536}
Ops == {"add", "remove", "contains"}

\* the runs of main that are checked.  A harness is the set of keys populate
\* adds from the main thread before the workers start, the calls each worker
\* may make (workers keep to key ranges of their own), and how many it makes.
\* In harness 3 both workers add into full tables.
Harnesses == {1, 2, 3}
KeyRange(t) == IF t = 1 THEN {0, 2} ELSE {1, 3, 65537}
PopulateKeys(h) == IF h \in {1, 3} THEN {0, 1, 3, 65537} ELSE {0, 1, 65537}
WorkerCalls(h, t) ==
    IF t = 1 THEN {<<"add", 2>>}
    ELSE IF h = 1 THEN {"remove", "contains"} \X KeyRange(2)
    ELSE IF h = 3 THEN {"add"} \X KeyRange(2)
    ELSE Ops \X KeyRange(2)
WorkerOps(h, t) == IF h = 1 /\ t = 2 THEN MaxOps ELSE 1
AllKeys == Keys \cup KeyRange(1) \cup KeyRange(2)

VARIABLES table, tsize, capacity, current_size, locks, th, abs, added, removed,
          successful_adds, successful_removes, initial_size, pre, phase, harness

\* the bank test (tests.cc): the simplemap_t, the account mutexes, the fields of
\* double_shared_lock with the threads waiting on its three condition variables,
\* the threads of the test and the assert that ended it
\* aligned: whether the array values, declared alignas(16), lies on a 32-byte
\* boundary in this run
VARIABLES NUM_ACCOUNT, values, aligned, account_locks, deposit_ops, notifier_lock,
          is_balanced_locked, is_deposit_locked, notifications,
          done_deposits, done_balance, waiting_for_notif, bt, failed

bank == <<NUM_ACCOUNT, values, aligned, account_locks, deposit_ops, notifier_lock,
          is_balanced_locked, is_deposit_locked, notifications,
          done_deposits, done_balance, waiting_for_notif, bt, failed>>

\* PhasedCuckooHashSet<int> (claude-cuckoo-1.cpp): the arrays allocated with
\* new[] (heap), the members table (an index into heap), capacity and locks, the
\* threads with their call stacks, the run that is checked and its round, the
\* fault that ended the run, and what the calls have returned so far
VARIABLES heap, ptable, pcapacity, plocks, pth, pharness, round, pfailed,
          unmatched, padded, premoved

phased == <<heap, ptable, pcapacity, plocks, pth, pharness, round, pfailed,
            unmatched, padded, premoved>>

vars == <<table, tsize, capacity, current_size, locks, th, abs, added, removed,
          successful_adds, successful_removes, initial_size, pre, phase, harness, bank, phased>>

\* what a returning call updates: the keys added and removed so far, and the
\* counters of worker_thread
results == <<added, removed, successful_adds, successful_removes>>

\* ------------------------------------------------------------------ hashing
RECURSIVE Xor(_, _)
Xor(a, b) ==
    IF a = 0 THEN b
    ELSE IF b = 0 THEN a
    ELSE (((a % 2) + (b % 2)) % 2) + 2 * Xor(a \div 2, b \div 2)

\* (a * b) % m by doubling, every intermediate value below 2 * m
RECURSIVE MulMod(_, _, _)
MulMod(a, b, m) ==
    IF a = 0 \/ b = 0 THEN 0
    ELSE ((IF (b % 2) = 1 THEN (a % m) ELSE 0) + ((2 * MulMod(a, b \div 2, m)) % m)) % m

\* (v * 0x85ebca6b) % m, with 0x85ebca6b = MultHi * 2^16 + MultLo.  For m up to
\* 2^15 the product of two residues is below 2^30 and is taken directly.
TimesMultiplier(v, m) ==
    IF m <= HashShift \div 2
    THEN LET multiplier == (((MultHi % m) * (HashShift % m)) + MultLo) % m
         IN  ((v % m) * multiplier) % m
    ELSE (MulMod(MulMod(v, MultHi, m), HashShift, m) + MulMod(v, MultLo, m)) % m

Hash(x) == x

h1(x, current_capacity) ==
    IF current_capacity = 0 THEN 0 ELSE Hash(x) % current_capacity

h2(x, current_capacity) ==
    IF current_capacity = 0 THEN 0
    ELSE LET hash_val == Hash(x)
         IN  TimesMultiplier(Xor(hash_val, hash_val \div HashShift), current_capacity)

Min2(a, b) == IF a <= b THEN a ELSE b
Max2(a, b) == IF a >= b THEN a ELSE b

\* the two stripe indices in table order, without the min/max
get_lock_indices_unordered(x, current_capacity) ==
    IF current_capacity = 0 THEN <<0, 0>>
    ELSE <<h1(x, current_capacity) % NUM_LOCKS, h2(x, current_capacity) % NUM_LOCKS>>

get_lock_indices(x, current_capacity) ==
    IF current_capacity = 0 THEN <<0, 0>>
    ELSE LET lock1_idx == h1(x, current_capacity) % NUM_LOCKS
             lock2_idx == h2(x, current_capacity) % NUM_LOCKS
         IN  <<Min2(lock1_idx, lock2_idx), Max2(lock1_idx, lock2_idx)>>

\* ------------------------------------------------------------------- tables
EmptyFn == [p \in {} |-> NoKey]
EmptyTable == [i \in 0 .. (NUM_TABLES - 1) |-> EmptyFn]

HasValue(tab, i, pos) == pos \in DOMAIN tab[i]

Value(tab, i, pos) == IF HasValue(tab, i, pos) THEN tab[i][pos] ELSE NoKey

\* table[i][pos] = v
Store(tab, i, pos, v) == [tab EXCEPT ![i] = (pos :> v) @@ tab[i]]

\* a reset that leaves the slot as it is
ResetKeeps(tab, i, pos) == tab

\* table[i][pos].reset()
Reset(tab, i, pos) ==
    [tab EXCEPT ![i] = EmptyFn @@ [p \in (DOMAIN tab[i]) \ {pos} |-> tab[i][p]]]

\* the slot of table 0 resp. table 1 holds x (with the bounds tests of the code)
SlotHolds(tab, tsz, i, pos, x, current_capacity) ==
    /\ pos < current_capacity
    /\ tsz[i] > pos
    /\ HasValue(tab, i, pos)
    /\ tab[i][pos] = x

contains_unsafe(tab, tsz, x, current_capacity) ==
    IF current_capacity = 0 THEN FALSE
    ELSE \/ SlotHolds(tab, tsz, 0, h1(x, current_capacity), x, current_capacity)
         \/ SlotHolds(tab, tsz, 1, h2(x, current_capacity), x, current_capacity)

SlotOf(item, idx, cap) == IF idx = 0 THEN h1(item, cap) ELSE h2(item, cap)

\* a turn whose swap does not take the occupant along
CuckooTurnDropping(s, tsz, target_capacity) ==
    IF s.done THEN s
    ELSE LET pos == SlotOf(s.current_item, s.current_table_idx, target_capacity)
         IN  IF pos >= target_capacity \/ tsz[s.current_table_idx] <= pos
             THEN [s EXCEPT !.done = TRUE]
             ELSE IF ~HasValue(s.table, s.current_table_idx, pos)
             THEN [s EXCEPT !.done = TRUE, !.ok = TRUE,
                            !.table = Store(s.table, s.current_table_idx, pos,
                                            s.current_item)]
             ELSE [s EXCEPT !.table = Store(s.table, s.current_table_idx, pos,
                                            s.current_item),
                            !.current_table_idx = 1 - s.current_table_idx]

\* one turn of the for loop of add_cuckoo_unsafe; s.done once it has returned
CuckooTurn(s, tsz, target_capacity) ==
    IF s.done THEN s
    ELSE LET pos == SlotOf(s.current_item, s.current_table_idx, target_capacity)
         IN  IF pos >= target_capacity \/ tsz[s.current_table_idx] <= pos
             THEN [s EXCEPT !.done = TRUE]
             ELSE IF ~HasValue(s.table, s.current_table_idx, pos)
             THEN [s EXCEPT !.done = TRUE, !.ok = TRUE,
                            !.table = Store(s.table, s.current_table_idx, pos,
                                            s.current_item)]
             ELSE [s EXCEPT !.table = Store(s.table, s.current_table_idx, pos,
                                            s.current_item),
                            !.current_item = s.table[s.current_table_idx][pos],
                            !.current_table_idx = 1 - s.current_table_idx]

\* the next `turns` turns of the loop, in order: the first half of them, then
\* the rest from the state the first half has left
RECURSIVE CuckooLoop(_, _, _, _)
CuckooLoop(s, turns, tsz, target_capacity) ==
    IF s.done \/ turns <= 0 THEN s
    ELSE IF turns = 1 THEN CuckooTurn(s, tsz, target_capacity)
    ELSE LET half == turns \div 2
         IN  CHOOSE last \in {CuckooLoop(first, turns - half, tsz, target_capacity) :
                                first \in {CuckooLoop(s, half, tsz, target_capacity)}} :
                 TRUE

add_cuckoo_unsafe(item, target_table, tsz, target_capacity) ==
    IF target_capacity = 0
    THEN [ok |-> FALSE, table |-> target_table]
    ELSE LET s == CuckooLoop([ok |-> FALSE, done |-> FALSE, table |-> target_table,
                              current_item |-> item, current_table_idx |-> 0],
                             MAX_KICK_LIMIT, tsz, target_capacity)
         IN  [ok |-> s.ok, table |-> s.table]

\* one turn of the rehash loop of resize: slot j of table i
RehashSlot(st, i, j, new_tsz, new_capacity) ==
    IF ~HasValue(st.old, i, j) THEN st
    ELSE LET r == add_cuckoo_unsafe(st.old[i][j], st.new, new_tsz, new_capacity)
         IN  [old |-> Reset(st.old, i, j),
              new |-> r.table,
              rehash_failures |-> st.rehash_failures + (IF r.ok THEN 0 ELSE 1),
              current_elements_found |-> st.current_elements_found + 1]

\* the turns for the slots lo .. hi - 1 of table i (i < table.size()), in
\* ascending order
RECURSIVE RehashTable(_, _, _, _, _, _)
RehashTable(st, i, lo, hi, new_tsz, new_capacity) ==
    IF i \notin DOMAIN st.old \/ hi <= lo THEN st
    ELSE IF hi = lo + 1 THEN RehashSlot(st, i, lo, new_tsz, new_capacity)
    ELSE LET mid == (lo + hi) \div 2
         IN  CHOOSE last \in {RehashTable(first, i, mid, hi, new_tsz, new_capacity) :
                                first \in {RehashTable(st, i, lo, mid, new_tsz,
                                                       new_capacity)}} :
                 TRUE

Rehash(tab, tsz, old_capacity, new_capacity) ==
    LET new_tsz == [i \in 0 .. (NUM_TABLES - 1) |-> new_capacity]
        st0 == [old |-> tab, new |-> EmptyTable,
                rehash_failures |-> 0, current_elements_found |-> 0]
    IN  CHOOSE last \in {RehashTable(st1, 1, 0, Min2(old_capacity, tsz[1]), new_tsz,
                                     new_capacity) :
                           st1 \in {RehashTable(st0, 0, 0, Min2(old_capacity, tsz[0]),
                                                new_tsz, new_capacity)}} :
            TRUE

\* -------------------------------------------------------------------- state
IdleThread ==
    [pc |-> "idle", op |-> "none", x |-> NoKey, ret |-> FALSE,
     item_to_insert |-> NoKey, attempts |-> 0, current_cap |-> 0,
     lock_idx1 |-> 0, lock_idx2 |-> 0,
     current_item |-> NoKey, current_table_idx |-> 0, kick |-> 0, pos |-> 0,
     seen |-> NoKey, old_capacity |-> 0, i |-> 0,
     nops |-> 0, expect |-> FALSE, mustfind |-> FALSE, examined |-> FALSE,
     again |-> FALSE, exhaustions |-> 0, resizes |-> 0, alone |-> FALSE]

\* no PhasedCuckooHashSet has been constructed
NoPhased ==
    /\ heap = << >>
    /\ ptable = 0
    /\ pcapacity = 0
    /\ plocks = << >>
    /\ pth = << >>
    /\ pharness = 0
    /\ round = 0
    /\ pfailed = "none"
    /\ unmatched = 0
    /\ padded = {}
    /\ premoved = {}

\* run_custom_tests is not running
NoBank ==
    /\ NUM_ACCOUNT = 0
    /\ values = << >>
    /\ aligned = FALSE
    /\ account_locks = << >>
    /\ deposit_ops = 0
    /\ notifier_lock = NoThread
    /\ is_balanced_locked = FALSE
    /\ is_deposit_locked = FALSE
    /\ notifications = << >>
    /\ done_deposits = {}
    /\ done_balance = {}
    /\ waiting_for_notif = {}
    /\ bt = << >>
    /\ failed = "none"

NoSnapshot == [table |-> EmptyTable, capacity |-> 0, current_size |-> 0]

Constructed(initial_capacity) ==
    /\ capacity = (IF initial_capacity = 0 THEN DefaultCapacity ELSE initial_capacity)
    /\ tsize = [i \in 0 .. (NUM_TABLES - 1) |->
                    IF initial_capacity = 0 THEN DefaultCapacity ELSE initial_capacity]
    /\ table = EmptyTable
    /\ current_size = 0
    /\ locks = [l \in 0 .. (NUM_LOCKS - 1) |-> NoThread]
    /\ th = [t \in Threads |-> IdleThread]
    /\ abs = {}
    /\ added = {}
    /\ removed = {}
    /\ successful_adds = 0
    /\ successful_removes = 0
    /\ initial_size = 0
    /\ pre = NoSnapshot

Init ==
    /\ NoBank
    /\ NoPhased
    /\ Constructed(InitCap)
    /\ phase = "single"
    /\ harness = 0

InitConcurrent ==
    /\ NoBank
    /\ NoPhased
    /\ Constructed(InitCap)
    /\ phase = "populate"
    /\ harness \in Harnesses

AllIdle == \A t \in Threads : th[t].pc = "idle"

\* an unlock that releases lk1 and leaves lk2 locked
Unlock2KeepsSecond(lk, t, lock_idx1, lock_idx2) ==
    [l \in DOMAIN lk |-> IF l = lock_idx1 /\ lk[l] = t THEN NoThread ELSE lk[l]]

Unlock2(lk, t, lock_idx1, lock_idx2) ==
    [l \in DOMAIN lk |-> IF l \in {lock_idx1, lock_idx2} /\ lk[l] = t
                         THEN NoThread ELSE lk[l]]

\* a release that leaves stripe 0 locked
UnlockAllButFirst(lk, t) ==
    [l \in DOMAIN lk |-> IF lk[l] = t /\ l > 0 THEN NoThread ELSE lk[l]]

UnlockAll(lk, t) == [l \in DOMAIN lk |-> IF lk[l] = t THEN NoThread ELSE lk[l]]

\* the locals of a finished call are dead: only the call, its result and the
\* bookkeeping of the run survive
Returned(r, val) ==
    [IdleThread EXCEPT !.op = r.op, !.x = r.x, !.ret = val, !.nops = r.nops,
                       !.expect = r.expect, !.mustfind = r.mustfind,
                       !.examined = r.examined, !.again = r.again,
                       !.exhaustions = r.exhaustions, !.resizes = r.resizes,
                       !.alone = r.alone]

\* ----------------------------------------------------------------- the calls
Invoke(t, o, k, n) ==
    /\ th[t].pc = "idle"
    /\ th' = [u \in Threads |->
                IF u = t
                THEN [IdleThread EXCEPT !.pc = "load", !.op = o, !.x = k,
                                        !.item_to_insert = (IF o = "add" THEN k ELSE NoKey),
                                        !.nops = n,
                                        !.expect = (IF o = "add" THEN k \notin abs ELSE k \in abs),
                                        !.mustfind = (k \in added),
                                        !.again = (k \in removed),
                                        !.alone = AllIdle]
                ELSE IF th[u].pc = "idle" THEN th[u]
                ELSE [th[u] EXCEPT !.alone = FALSE]]
    /\ abs' = (IF o = "add" THEN abs \cup {k}
               ELSE IF o = "remove" THEN abs \ {k} ELSE abs)
    /\ added' = (IF o = "remove" THEN added \ {k} ELSE added)
    /\ removed' = (IF o = "add" THEN removed \ {k} ELSE removed)
    /\ UNCHANGED <<table, tsize, capacity, current_size, locks,
                   successful_adds, successful_removes>>

\* a call made while no other call is in progress
Call(t, o, k) ==
    /\ AllIdle
    /\ t = 1
    /\ Invoke(t, o, k, th[t].nops)
    /\ pre' = [table |-> table, capacity |-> capacity, current_size |-> current_size]
    /\ UNCHANGED <<phase, harness, bank, phased, initial_size>>

\* populate: main adds keys before any worker runs
Populate(k) ==
    /\ phase = "populate"
    /\ k \in PopulateKeys(harness)
    /\ Call(1, "add", k)

\* main starts the workers once populate has added its keys
StartWorkers ==
    /\ phase = "populate"
    /\ AllIdle
    /\ PopulateKeys(harness) \subseteq added
    /\ phase' = "run"
    /\ th' = [t \in Threads |-> IdleThread]
    /\ pre' = NoSnapshot
    /\ initial_size' = current_size
    /\ successful_adds' = 0
    /\ successful_removes' = 0
    /\ UNCHANGED <<table, tsize, capacity, current_size, locks, abs, added, removed,
                   harness, bank, phased>>

\* when the scheduler first runs worker t: at once, except that in harness 3 the
\* second worker gets to run only when the first has reached resize
Scheduled(h, t) ==
    (h = 3 /\ t = 2) => th[1].pc \in {"resize", "lock_all"}

\* a call of a worker thread on one of its own keys
CallConcurrent(t, o, k) ==
    /\ phase = "run"
    /\ Scheduled(harness, t)
    /\ th[t].nops < WorkerOps(harness, t)
    /\ <<o, k>> \in WorkerCalls(harness, t)
    /\ Invoke(t, o, k, th[t].nops + 1)
    /\ UNCHANGED <<pre, phase, harness, bank, phased, initial_size>>

Return(t, val) ==
    /\ th' = [th EXCEPT ![t] = Returned(th[t], val)]
    /\ added' = (IF th[t].op = "add" /\ val THEN added \cup {th[t].x} ELSE added)
    /\ removed' = (IF th[t].op = "remove" /\ val THEN removed \cup {th[t].x}
                   ELSE removed)
    /\ successful_adds' = (IF phase = "run" /\ th[t].op = "add" /\ val
                           THEN successful_adds + 1 ELSE successful_adds)
    /\ successful_removes' = (IF phase = "run" /\ th[t].op = "remove" /\ val
                              THEN successful_removes + 1 ELSE successful_removes)

\* capacity.load and get_lock_indices (add: the head of the while loop)
Load(t) ==
    /\ th[t].pc = "load"
    /\ IF (th[t].op = "add" /\ th[t].attempts >= max_resize_attempts) \/ capacity = 0
       THEN Return(t, FALSE)
       ELSE LET key == IF th[t].op = "add" THEN th[t].item_to_insert ELSE th[t].x
                idx == get_lock_indices(key, capacity)
            IN  /\ th' = [th EXCEPT ![t].pc = "lock1", ![t].current_cap = capacity,
                                    ![t].lock_idx1 = idx[1], ![t].lock_idx2 = idx[2]]
                /\ UNCHANGED results
    /\ UNCHANGED <<table, tsize, capacity, current_size, locks, abs, pre, phase, harness, bank, phased,
                   initial_size>>

\* an acquire_lock1 that goes on without locking
acquire_lock1_skipped(t) ==
    /\ th[t].pc = "lock1"
    /\ th' = [th EXCEPT ![t].pc = "lock2"]
    /\ UNCHANGED <<table, tsize, capacity, current_size, locks, abs, results, pre, phase,
                   harness, bank, phased, initial_size>>

acquire_lock1(t) ==
    /\ th[t].pc = "lock1"
    /\ locks[th[t].lock_idx1] = NoThread
    /\ locks' = [locks EXCEPT ![th[t].lock_idx1] = t]
    /\ th' = [th EXCEPT ![t].pc = "lock2"]
    /\ UNCHANGED <<table, tsize, capacity, current_size, abs, results, pre, phase,
                   harness, bank, phased, initial_size>>

acquire_lock2(t) ==
    /\ th[t].pc = "lock2"
    /\ IF th[t].lock_idx1 = th[t].lock_idx2
       THEN UNCHANGED locks
       ELSE /\ locks[th[t].lock_idx2] = NoThread
            /\ locks' = [locks EXCEPT ![th[t].lock_idx2] = t]
    /\ th' = [th EXCEPT ![t].pc = "check"]
    /\ UNCHANGED <<table, tsize, capacity, current_size, abs, results, pre, phase,
                   harness, bank, phased, initial_size>>

Key(t) == IF th[t].op = "add" THEN th[t].item_to_insert ELSE th[t].x

\* a check that does not compare capacity with the snapshot
CheckUnvalidated(t) ==
    /\ th[t].pc = "check"
    /\ LET r == th[t]
           unlocked == Unlock2(locks, t, r.lock_idx1, r.lock_idx2)
           hit == SlotHolds(table, tsize, 0, h1(Key(t), r.current_cap), Key(t),
                            r.current_cap)
       IN  IF FALSE
           THEN /\ locks' = unlocked
                /\ IF r.op = "add"
                   THEN th' = [th EXCEPT ![t].pc = "load"] /\ UNCHANGED results
                   ELSE Return(t, FALSE)
           ELSE IF hit /\ r.op = "add"
           THEN /\ locks' = unlocked
                /\ th' = [th EXCEPT ![t] = Returned([r EXCEPT !.examined = TRUE], FALSE)]
                /\ UNCHANGED results
           ELSE IF hit /\ r.op = "contains"
           THEN /\ locks' = unlocked
                /\ th' = [th EXCEPT ![t] = Returned([r EXCEPT !.examined = TRUE], TRUE)]
                /\ UNCHANGED results
           ELSE /\ th' = [th EXCEPT ![t].pc = (IF hit THEN "reset0" ELSE "probe2"),
                                    ![t].examined = TRUE]
                /\ UNCHANGED <<locks, results>>
    /\ UNCHANGED <<table, tsize, capacity, current_size, abs, pre, phase, harness, bank, phased,
                   initial_size>>

\* the capacity re-check after locking and the test of the table-0 slot
Check(t) ==
    /\ th[t].pc = "check"
    /\ LET r == th[t]
           unlocked == Unlock2(locks, t, r.lock_idx1, r.lock_idx2)
           hit == SlotHolds(table, tsize, 0, h1(Key(t), r.current_cap), Key(t),
                            r.current_cap)
       IN  IF capacity # r.current_cap
           THEN /\ locks' = unlocked
                /\ IF r.op = "add"
                   THEN th' = [th EXCEPT ![t].pc = "load"] /\ UNCHANGED results
                   ELSE Return(t, FALSE)
           ELSE IF hit /\ r.op = "add"
           THEN /\ locks' = unlocked
                /\ th' = [th EXCEPT ![t] = Returned([r EXCEPT !.examined = TRUE], FALSE)]
                /\ UNCHANGED results
           ELSE IF hit /\ r.op = "contains"
           THEN /\ locks' = unlocked
                /\ th' = [th EXCEPT ![t] = Returned([r EXCEPT !.examined = TRUE], TRUE)]
                /\ UNCHANGED results
           ELSE /\ th' = [th EXCEPT ![t].pc = (IF hit THEN "reset0" ELSE "probe2"),
                                    ![t].examined = TRUE]
                /\ UNCHANGED <<locks, results>>
    /\ UNCHANGED <<table, tsize, capacity, current_size, abs, pre, phase, harness, bank, phased,
                   initial_size>>

\* a test of the table-1 slot whose outcome contains does not report
Probe2Unreported(t) ==
    /\ th[t].pc = "probe2"
    /\ LET r == th[t]
           unlocked == Unlock2(locks, t, r.lock_idx1, r.lock_idx2)
           hit == SlotHolds(table, tsize, 1, h2(Key(t), r.current_cap), Key(t),
                            r.current_cap)
       IN  IF r.op = "add" /\ ~hit
           THEN /\ th' = [th EXCEPT ![t].pc = "kick",
                                    ![t].current_item = r.item_to_insert,
                                    ![t].current_table_idx = 0, ![t].kick = 0]
                /\ UNCHANGED <<locks, results>>
           ELSE IF r.op = "remove" /\ hit
           THEN /\ th' = [th EXCEPT ![t].pc = "reset1"]
                /\ UNCHANGED <<locks, results>>
           ELSE /\ locks' = unlocked
                /\ Return(t, FALSE)
    /\ UNCHANGED <<table, tsize, capacity, current_size, abs, pre, phase, harness, bank, phased,
                   initial_size>>

\* the test of the table-1 slot
Probe2(t) ==
    /\ th[t].pc = "probe2"
    /\ LET r == th[t]
           unlocked == Unlock2(locks, t, r.lock_idx1, r.lock_idx2)
           hit == SlotHolds(table, tsize, 1, h2(Key(t), r.current_cap), Key(t),
                            r.current_cap)
       IN  IF r.op = "add" /\ ~hit
           THEN /\ th' = [th EXCEPT ![t].pc = "kick",
                                    ![t].current_item = r.item_to_insert,
                                    ![t].current_table_idx = 0, ![t].kick = 0]
                /\ UNCHANGED <<locks, results>>
           ELSE IF r.op = "remove" /\ hit
           THEN /\ th' = [th EXCEPT ![t].pc = "reset1"]
                /\ UNCHANGED <<locks, results>>
           ELSE /\ locks' = unlocked
                /\ Return(t, r.op = "contains" /\ hit)
    /\ UNCHANGED <<table, tsize, capacity, current_size, abs, pre, phase, harness, bank, phased,
                   initial_size>>

\* remove: table[i][pos].reset() and current_size.fetch_sub(1)
RemoveReset(t) ==
    /\ th[t].pc \in {"reset0", "reset1"}
    /\ LET r == th[t]
           i == IF r.pc = "reset0" THEN 0 ELSE 1
           pos == SlotOf(r.x, i, r.current_cap)
       IN  /\ table' = Reset(table, i, pos)
           /\ current_size' = current_size - 1
           /\ locks' = Unlock2(locks, t, r.lock_idx1, r.lock_idx2)
           /\ Return(t, TRUE)
    /\ UNCHANGED <<tsize, capacity, abs, pre, phase, harness, bank, phased, initial_size>>

\* one turn of the kick loop, up to the read of the slot
Kick(t) ==
    /\ th[t].pc = "kick"
    /\ LET r == th[t]
           pos == SlotOf(r.current_item, r.current_table_idx, r.current_cap)
       IN  IF pos >= r.current_cap \/ tsize[r.current_table_idx] <= pos
           THEN th' = [th EXCEPT ![t].pc = "resize_check",
                                 ![t].current_item = r.item_to_insert,
                                 ![t].exhaustions = r.exhaustions + 1]
           ELSE th' = [th EXCEPT ![t].pc = "kickw", ![t].pos = pos,
                                 ![t].seen = Value(table, r.current_table_idx, pos)]
    /\ UNCHANGED <<table, tsize, capacity, current_size, locks, abs, results, pre, phase,
                   harness, bank, phased, initial_size>>

\* a write of the slot in a loop that has no limit
KickWriteUnbounded(t) ==
    /\ th[t].pc = "kickw"
    /\ LET r == th[t]
       IN  /\ table' = Store(table, r.current_table_idx, r.pos, r.current_item)
           /\ IF r.seen = NoKey
              THEN /\ current_size' = current_size + 1
                   /\ locks' = Unlock2(locks, t, r.lock_idx1, r.lock_idx2)
                   /\ Return(t, TRUE)
              ELSE /\ th' = [th EXCEPT
                        ![t].current_item = r.seen,
                        ![t].current_table_idx = 1 - r.current_table_idx,
                        ![t].kick = r.kick + 1,
                        ![t].seen = NoKey,
                        ![t].pos = 0,
                        ![t].item_to_insert =
                            (IF FALSE THEN r.seen
                             ELSE r.item_to_insert),
                        ![t].exhaustions =
                            (IF FALSE THEN r.exhaustions + 1
                             ELSE r.exhaustions),
                        ![t].pc = (IF FALSE
                                   THEN "resize_check" ELSE "kick")]
                   /\ UNCHANGED <<current_size, locks, results>>
    /\ UNCHANGED <<tsize, capacity, abs, pre, phase, harness, bank, phased, initial_size>>

\* the rest of the turn: the write of the slot
KickWrite(t) ==
    /\ th[t].pc = "kickw"
    /\ LET r == th[t]
       IN  /\ table' = Store(table, r.current_table_idx, r.pos, r.current_item)
           /\ IF r.seen = NoKey
              THEN /\ current_size' = current_size + 1
                   /\ locks' = Unlock2(locks, t, r.lock_idx1, r.lock_idx2)
                   /\ Return(t, TRUE)
              ELSE /\ th' = [th EXCEPT
                        ![t].current_item = r.seen,
                        ![t].current_table_idx = 1 - r.current_table_idx,
                        ![t].kick = r.kick + 1,
                        ![t].seen = NoKey,
                        ![t].pos = 0,
                        ![t].item_to_insert =
                            (IF r.kick + 1 >= MAX_KICK_LIMIT THEN r.seen
                             ELSE r.item_to_insert),
                        ![t].exhaustions =
                            (IF r.kick + 1 >= MAX_KICK_LIMIT THEN r.exhaustions + 1
                             ELSE r.exhaustions),
                        ![t].pc = (IF r.kick + 1 >= MAX_KICK_LIMIT
                                   THEN "resize_check" ELSE "kick")]
                   /\ UNCHANGED <<current_size, locks, results>>
    /\ UNCHANGED <<tsize, capacity, abs, pre, phase, harness, bank, phased, initial_size>>

\* a resize_check that goes on to resize with its stripes still locked
ResizeCheckLocked(t) ==
    /\ th[t].pc = "resize_check"
    /\ IF th[t].attempts + 1 >= max_resize_attempts
       THEN /\ locks' = Unlock2(locks, t, th[t].lock_idx1, th[t].lock_idx2)
            /\ Return(t, FALSE)
       ELSE /\ th' = [th EXCEPT ![t].pc = "resize", ![t].attempts = th[t].attempts + 1,
                                ![t].resizes = th[t].resizes + 1]
            /\ UNCHANGED <<locks, results>>
    /\ UNCHANGED <<table, tsize, capacity, current_size, abs, pre, phase, harness, bank, phased,
                   initial_size>>

\* resize_check: unlock, count the attempt, give up or go on to resize
ResizeCheck(t) ==
    /\ th[t].pc = "resize_check"
    /\ locks' = Unlock2(locks, t, th[t].lock_idx1, th[t].lock_idx2)
    /\ IF th[t].attempts + 1 >= max_resize_attempts
       THEN Return(t, FALSE)
       ELSE /\ th' = [th EXCEPT ![t].pc = "resize", ![t].attempts = th[t].attempts + 1,
                                ![t].resizes = th[t].resizes + 1]
            /\ UNCHANGED results
    /\ UNCHANGED <<table, tsize, capacity, current_size, abs, pre, phase, harness, bank, phased,
                   initial_size>>

\* resize: the capacity snapshot
ResizeLoad(t) ==
    /\ th[t].pc = "resize"
    /\ th' = [th EXCEPT ![t].pc = "lock_all", ![t].old_capacity = capacity, ![t].i = 0]
    /\ UNCHANGED <<table, tsize, capacity, current_size, locks, abs, results, pre, phase,
                   harness, bank, phased, initial_size>>

\* the lock-all loop left after its first turn
LockAllDoneOnlyFirst(i) == i >= 1

\* resize: the lock-all loop ends once i reaches NUM_LOCKS
LockAllDone(i) == i >= NUM_LOCKS

\* resize: one turn of the lock-all loop
ResizeLock(t) ==
    /\ th[t].pc = "lock_all"
    /\ locks[th[t].i] = NoThread
    /\ locks' = [locks EXCEPT ![th[t].i] = t]
    /\ th' = [th EXCEPT ![t].i = th[t].i + 1,
                        ![t].pc = (IF LockAllDone(th[t].i + 1) THEN "rehash"
                                   ELSE "lock_all")]
    /\ UNCHANGED <<table, tsize, capacity, current_size, abs, results, pre, phase,
                   harness, bank, phased, initial_size>>

\* a resize that grows the tables to three times their length
NewCapacityTripled(old_capacity) ==
    IF old_capacity = 0 THEN DefaultCapacity ELSE old_capacity * 3

NewCapacity(old_capacity) ==
    IF old_capacity = 0 THEN DefaultCapacity ELSE old_capacity * 2

\* a double check that never finds the capacity changed
CapacityChangedIgnored(old_capacity) == FALSE

\* resize: the double check of the capacity once every stripe is held
CapacityChanged(old_capacity) == capacity # old_capacity

\* resize with every stripe held: re-check, rehash, commit or abandon, unlock
ResizeBody(t) ==
    /\ th[t].pc = "rehash"
    /\ LET old_capacity == th[t].old_capacity
           new_capacity == NewCapacity(old_capacity)
           st == Rehash(table, tsize, old_capacity, new_capacity)
       IN  IF CapacityChanged(old_capacity) \/ old_capacity > CapacityCeiling
           THEN UNCHANGED <<table, tsize, capacity, current_size>>
           ELSE IF st.rehash_failures = 0
           THEN /\ table' = st.new
                /\ tsize' = [i \in 0 .. (NUM_TABLES - 1) |-> new_capacity]
                /\ capacity' = new_capacity
                /\ current_size' = st.current_elements_found
           ELSE /\ table' = st.old
                /\ UNCHANGED <<tsize, capacity, current_size>>
    /\ locks' = UnlockAll(locks, t)
    /\ th' = [th EXCEPT ![t].pc = "load", ![t].old_capacity = 0, ![t].i = 0]
    /\ UNCHANGED <<abs, results, pre, phase, harness, bank, phased, initial_size>>

\* one caller at a time
Next ==
    \/ \E o \in Ops, k \in Keys : Call(1, o, k)
    \/ \E t \in Threads : Load(t)
    \/ \E t \in Threads : acquire_lock1(t)
    \/ \E t \in Threads : acquire_lock2(t)
    \/ \E t \in Threads : Check(t)
    \/ \E t \in Threads : Probe2(t)
    \/ \E t \in Threads : RemoveReset(t)
    \/ \E t \in Threads : Kick(t)
    \/ \E t \in Threads : KickWrite(t)
    \/ \E t \in Threads : ResizeCheck(t)
    \/ \E t \in Threads : ResizeLoad(t)
    \/ \E t \in Threads : ResizeLock(t)
    \/ \E t \in Threads : ResizeBody(t)

Spec == Init /\ [][Next]_vars

\* populate, then worker threads on disjoint keys
NextConcurrent ==
    \/ \E k \in AllKeys : Populate(k)
    \/ StartWorkers
    \/ \E t \in Threads : \E o \in Ops, k \in KeyRange(t) : CallConcurrent(t, o, k)
    \/ \E t \in Threads : Load(t)
    \/ \E t \in Threads : acquire_lock1(t)
    \/ \E t \in Threads : acquire_lock2(t)
    \/ \E t \in Threads : Check(t)
    \/ \E t \in Threads : Probe2(t)
    \/ \E t \in Threads : RemoveReset(t)
    \/ \E t \in Threads : Kick(t)
    \/ \E t \in Threads : KickWrite(t)
    \/ \E t \in Threads : ResizeCheck(t)
    \/ \E t \in Threads : ResizeLoad(t)
    \/ \E t \in Threads : ResizeLock(t)
    \/ \E t \in Threads : ResizeBody(t)

SpecConcurrent == InitConcurrent /\ [][NextConcurrent]_vars

\* the steps thread t takes inside a call, from its capacity snapshot to its return
Run(t) ==
    \/ Load(t)
    \/ acquire_lock1(t)
    \/ acquire_lock2(t)
    \/ Check(t)
    \/ Probe2(t)
    \/ RemoveReset(t)
    \/ Kick(t)
    \/ KickWrite(t)
    \/ ResizeCheck(t)
    \/ ResizeLoad(t)
    \/ ResizeLock(t)
    \/ ResizeBody(t)

\* the runs of harness 3, in which both workers add
InitAdders ==
    /\ NoBank
    /\ NoPhased
    /\ Constructed(InitCap)
    /\ phase = "populate"
    /\ harness = 3

NextAdders ==
    \/ \E k \in AllKeys : Populate(k)
    \/ StartWorkers
    \/ \E t \in Threads : \E o \in Ops, k \in KeyRange(t) : CallConcurrent(t, o, k)
    \/ \E t \in Threads : Load(t)
    \/ \E t \in Threads : acquire_lock1(t)
    \/ \E t \in Threads : acquire_lock2(t)
    \/ \E t \in Threads : Check(t)
    \/ \E t \in Threads : Probe2(t)
    \/ \E t \in Threads : Kick(t)
    \/ \E t \in Threads : KickWrite(t)
    \/ \E t \in Threads : ResizeCheck(t)
    \/ \E t \in Threads : ResizeLoad(t)
    \/ \E t \in Threads : ResizeLock(t)
    \/ \E t \in Threads : ResizeBody(t)

\* those runs under a scheduler that does not leave a thread that can take a
\* step, or a thread waiting for a mutex that stays free, waiting forever
SpecAddersFair ==
    InitAdders /\ [][NextAdders]_vars /\ \A t \in Threads : WF_vars(Run(t))

\* a run of one thread on a set constructed with RehashCap slots per table, adding
\* keys picked by the slots they hash to.  KeyAt(a, b) is a key with h1 = a and
\* h2 = b under the capacity a resize of that set moves to (and so with h1 and h2
\* equal to a and b modulo RehashCap before the resize).
KeyAt(a, b) ==
    LET new_capacity == NewCapacity(RehashCap)
        S == {x \in {(hi * HashShift) + a : hi \in 0 .. (new_capacity - 1)} :
                h1(x, new_capacity) = a /\ h2(x, new_capacity) = b}
    IN  IF S = {} THEN a ELSE CHOOSE x \in S : \A y \in S : x <= y

\* the keys of a chain: the (2i-1)-th and the (2i)-th share table-0 slot i + 1,
\* the (2i)-th and the (2i+1)-th share table-1 slot i + 1.  Adding them in this
\* order leaves the first of each pair in table 1 and the second in table 0.
ChainKeys ==
    [n \in 1 .. (2 * ChainPairs) |->
        LET i == (n + 1) \div 2
        IN  IF (n % 2) = 1 THEN KeyAt(i + 1, i + 1) ELSE KeyAt(i + 1, i)]

\* three keys on slot 1 of table 0 ahead of the chain, and after it three keys
\* that share both their slots under RehashCap, which no relocation can place
RehashScript ==
    <<KeyAt(1, RehashCap - 1), KeyAt(1, 1), KeyAt(1, RehashCap - 2)>>
    \o ChainKeys
    \o <<KeyAt(RehashCap - 4, RehashCap - 4),
         KeyAt(RehashCap - 4, (2 * RehashCap) - 4),
         KeyAt((2 * RehashCap) - 4, RehashCap - 4)>>

InitRehash ==
    /\ NoBank
    /\ NoPhased
    /\ Constructed(RehashCap)
    /\ phase = "script"
    /\ harness = 0

\* the next add of the script, made once the one before has returned
ScriptCall ==
    /\ phase = "script"
    /\ th[1].nops < Len(RehashScript)
    /\ AllIdle
    /\ Invoke(1, "add", RehashScript[th[1].nops + 1], th[1].nops + 1)
    /\ pre' = [table |-> table, capacity |-> capacity, current_size |-> current_size]
    /\ UNCHANGED <<phase, harness, bank, phased, initial_size>>

NextRehash ==
    \/ ScriptCall
    \/ \E t \in Threads : Load(t)
    \/ \E t \in Threads : acquire_lock1(t)
    \/ \E t \in Threads : acquire_lock2(t)
    \/ \E t \in Threads : Check(t)
    \/ \E t \in Threads : Probe2(t)
    \/ \E t \in Threads : Kick(t)
    \/ \E t \in Threads : KickWrite(t)
    \/ \E t \in Threads : ResizeCheck(t)
    \/ \E t \in Threads : ResizeLoad(t)
    \/ \E t \in Threads : ResizeLock(t)
    \/ \E t \in Threads : ResizeBody(t)

SpecRehash == InitRehash /\ [][NextRehash]_vars

\* a run of one thread on a set constructed with more slots per table than resize
\* will grow from: CeilingCap is above CapacityCeiling, and the three keys of
\* CeilingScript have the same h1 and the same h2 under it
CeilingCap == 593505648

CeilingScript == <<288, 593505936, 1187011584>>

InitCeiling ==
    /\ NoBank
    /\ NoPhased
    /\ Constructed(CeilingCap)
    /\ phase = "ceiling"
    /\ harness = 0

\* the next add of the script, made once the one before has returned
CeilingCall ==
    /\ phase = "ceiling"
    /\ th[1].nops < Len(CeilingScript)
    /\ AllIdle
    /\ Invoke(1, "add", CeilingScript[th[1].nops + 1], th[1].nops + 1)
    /\ pre' = [table |-> table, capacity |-> capacity, current_size |-> current_size]
    /\ UNCHANGED <<phase, harness, bank, phased, initial_size>>

NextCeiling ==
    \/ CeilingCall
    \/ \E t \in Threads : Load(t)
    \/ \E t \in Threads : acquire_lock1(t)
    \/ \E t \in Threads : acquire_lock2(t)
    \/ \E t \in Threads : Check(t)
    \/ \E t \in Threads : Probe2(t)
    \/ \E t \in Threads : Kick(t)
    \/ \E t \in Threads : KickWrite(t)
    \/ \E t \in Threads : ResizeCheck(t)
    \/ \E t \in Threads : ResizeLoad(t)
    \/ \E t \in Threads : ResizeLock(t)
    \/ \E t \in Threads : ResizeBody(t)

SpecCeiling == InitCeiling /\ [][NextCeiling]_vars

\* ------------------------------------------------------------ the properties
Present(k) == contains_unsafe(table, tsize, k, capacity)

WasPresent(k) ==
    contains_unsafe(pre.table, [i \in 0 .. (NUM_TABLES - 1) |-> pre.capacity], k,
                    pre.capacity)

Finished(t, o) == th[t].pc = "idle" /\ th[t].op = o

StoredKeys(tab) == {tab[i][p] : i \in {0}, p \in DOMAIN tab[0]}
                   \cup {tab[i][p] : i \in {1}, p \in DOMAIN tab[1]}

\* C1: a finished add, made with no other call in progress, returned true exactly
\* when its key was absent before the call; then the key is present and the
\* live-count is one larger; when it returned false the tables, the capacity and
\* the live-count are what they were before the call.
C1_AddContract ==
    Finished(1, "add") =>
        /\ th[1].ret = ~WasPresent(th[1].x)
        /\ th[1].ret => Present(th[1].x) /\ current_size = pre.current_size + 1
        /\ ~th[1].ret => /\ table = pre.table
                         /\ capacity = pre.capacity
                         /\ current_size = pre.current_size

\* C2: after any single-threaded sequence of calls the keys contains reports are
\* those of the abstract set the same calls build, and the last call returned what
\* the abstract set returns.
C2_SetSemantics ==
    AllIdle =>
        /\ \A k \in AllKeys : Present(k) <=> k \in abs
        /\ th[1].op # "none" => th[1].ret = th[1].expect

\* C3: at every quiescent point every stored key sits in exactly one slot, the
\* slot its table's hash function gives under the current capacity.
C3_OneSlotPerKey ==
    AllIdle =>
        \A i \in DOMAIN table : \A p \in DOMAIN table[i] :
            /\ p = SlotOf(table[i][p], i, capacity)
            /\ \A j \in DOMAIN table : \A q \in DOMAIN table[j] :
                    table[j][q] = table[i][p] => j = i /\ q = p

\* a step in which thread t runs resize with every stripe held, to its return
ResizeReturns(t) == th[t].pc = "rehash" /\ th'[t].pc = "load"

\* that resize got as far as the rehash loop, and a reinsertion failed in it
RehashExhausted(t) ==
    /\ capacity = th[t].old_capacity
    /\ th[t].old_capacity <= CapacityCeiling
    /\ Rehash(table, tsize, th[t].old_capacity,
              NewCapacity(th[t].old_capacity)).rehash_failures > 0

\* C4: a resize is all-or-nothing: one in which a reinsertion exhausts the
\* relocation bound ends with the tables holding the keys they held when it
\* started, in the slots they were in, and with the capacity unchanged.
C4_ResizeAllOrNothing ==
    [][\A t \in Threads :
          (ResizeReturns(t) /\ RehashExhausted(t)) =>
              table' = table /\ capacity' = capacity]_vars

\* C5: every resize preserves membership and the live-count: the keys stored
\* after it are the keys stored before it, and size() is the same.
C5_ResizePreservesMembership ==
    [][\A t \in Threads :
          ResizeReturns(t) =>
              /\ StoredKeys(table') = StoredKeys(table)
              /\ current_size' = current_size]_vars

\* C6: once the workers are joined, contains(k) is what the serial replay of the
\* calls of k's owner gives, for every key.
C6_DisjointRangesReplay ==
    (phase = "run" /\ AllIdle) => \A k \in AllKeys : Present(k) <=> k \in abs

\* C7: a contains(k) that starts after add(k) returned true, with no remove(k)
\* invoked since, returns true.
C7_ContainsAfterAdd ==
    \A t \in Threads : (Finished(t, "contains") /\ th[t].mustfind) => th[t].ret

Waits(t) ==
    IF th[t].pc = "lock1" THEN {th[t].lock_idx1}
    ELSE IF th[t].pc = "lock2" /\ th[t].lock_idx1 # th[t].lock_idx2 THEN {th[t].lock_idx2}
    ELSE IF th[t].pc = "lock_all" THEN {th[t].i}
    ELSE {}

Blocked(t) == \E l \in Waits(t) : locks[l] # NoThread

\* C8: there is never a set of threads each of which waits for a stripe lock that
\* a thread of the set holds.
C8_NoDeadlock ==
    \A S \in (SUBSET Threads) \ {{}} :
        ~ \A t \in S : \E l \in Waits(t) : locks[l] \in S

C8_Witness ==
    \E t \in Threads, u \in Threads :
        /\ t # u
        /\ th[t].pc = "lock_all" /\ th[t].i > 0
        /\ Blocked(t)
        /\ th[u].pc \in {"kick", "kickw", "probe2"}

\* C9: no call returns without having examined its key's slots under the
\* capacity that is current while it holds its locks.
C9_ExaminedBeforeReturn ==
    \A t \in Threads : (th[t].pc = "idle" /\ th[t].op # "none") => th[t].examined

TableAccess == {"check", "probe2", "reset0", "reset1", "kick", "kickw"}

\* C10: while a thread is in resize with every stripe lock held, no other thread
\* is at a read or a write of a table slot.
C10_ResizeExclusive ==
    \A t \in Threads : th[t].pc = "rehash" =>
        \A u \in Threads \ {t} : th[u].pc \notin TableAccess

C10_Witness ==
    \E t \in Threads, u \in Threads :
        /\ t # u
        /\ th[t].pc = "rehash"
        /\ th[u].pc \in {"lock1", "lock2"}
        /\ th[u].current_cap = capacity

\* the slot thread t is about to write: add's kick loop and remove write one slot
WriteTarget(t) ==
    IF th[t].pc = "kickw" THEN {th[t].pos}
    ELSE IF th[t].pc = "reset0" THEN {h1(th[t].x, th[t].current_cap)}
    ELSE IF th[t].pc = "reset1" THEN {h2(th[t].x, th[t].current_cap)}
    ELSE {}

HoldsAll(t) == \A l \in DOMAIN locks : locks[l] = t

\* C11: a thread about to write slot i of a table holds stripe lock i mod NUM_LOCKS
\* or every stripe lock, and a thread rewriting the tables in resize holds every
\* stripe lock; so every slot written by add's kick chain is in a stripe the
\* adding thread holds.
C11_WriteUnderStripe ==
    \A t \in Threads :
        /\ \A i \in WriteTarget(t) : locks[i % NUM_LOCKS] = t \/ HoldsAll(t)
        /\ th[t].pc = "rehash" => HoldsAll(t)

\* C12: when an add, made with no other call in progress, has returned false after
\* its kick loop was exhausted, the keys stored in the tables are the keys stored
\* before the call: its key is not stored if it was not, and no key was dropped.
C12_FailedAddKeepsKeys ==
    (Finished(1, "add") /\ ~th[1].ret /\ th[1].exhaustions > 0) =>
        StoredKeys(table) = StoredKeys(pre.table)

\* C13: once the workers are joined, size() is the size main read before starting
\* them plus the number of adds that returned true minus the number of removes
\* that returned true.
C13_SizeBalance ==
    (phase = "run" /\ AllIdle) =>
        current_size = (initial_size + successful_adds) - successful_removes

\* C14: a contains(k) that starts after a remove(k) has returned true, with no
\* add(k) invoked since, returns false, whatever the other threads do on other
\* keys.
C14_RemovedStaysAbsent ==
    \A t \in Threads : (Finished(t, "contains") /\ th[t].again) => ~th[t].ret

C16_ExhaustionDoubles ==
    (Finished(1, "add") /\ th[1].exhaustions > 0) =>
        /\ th[1].ret
        /\ capacity = 2 * pre.capacity
        /\ Present(th[1].x)
        /\ \A k \in AllKeys : WasPresent(k) => Present(k)

\* C17: every step that changes the capacity doubles it: the new capacity is
\* twice the old one, so the capacity never decreases.
C17_OnlyDoubles ==
    [][capacity' # capacity => capacity' = 2 * capacity]_vars

C17_Witness ==
    /\ capacity >= 2 * InitCap
    /\ \E t \in Threads : th[t].pc = "load" /\ th[t].resizes > 0

\* C18: a resize that, with every stripe lock held, finds the capacity different
\* from its snapshot returns leaving the tables, the capacity and the live-count
\* as it found them, and holding no stripe lock.
C18_StaleResizeNoop ==
    [][\A t \in Threads :
          (ResizeReturns(t) /\ capacity # th[t].old_capacity) =>
              /\ table' = table
              /\ tsize' = tsize
              /\ capacity' = capacity
              /\ current_size' = current_size
              /\ \A l \in DOMAIN locks : locks'[l] # t]_vars

C18_Witness ==
    \E t \in Threads :
        /\ th[t].pc = "rehash"
        /\ HoldsAll(t)
        /\ capacity # th[t].old_capacity

\* the steps of add that work on the insertion: locking, the membership test and
\* the kick loop
Inserting == {"lock1", "lock2", "check", "probe2", "kick", "kickw"}

\* C19: an add whose resize found the capacity above the ceiling does not go back
\* to its insertion: once it has called resize with the capacity beyond
\* CapacityCeiling it neither locks nor probes nor kicks again.
C19_CeilingNotRetried ==
    \A t \in Threads :
        (th[t].op = "add" /\ th[t].resizes > 0 /\ capacity > CapacityCeiling) =>
            th[t].pc \notin Inserting

\* C20: no add calls resize more than max_resize_attempts times, and every add
\* that has been invoked returns, also when another thread's resize changes the
\* capacity under it and sends it round its loop again.
C20_AddTerminates ==
    /\ [](\A t \in Threads : th[t].resizes <= max_resize_attempts)
    /\ \A t \in Threads :
            (th[t].op = "add" /\ th[t].pc # "idle") ~> (th[t].pc = "idle")

\* an add sent round its loop by a capacity change that was not its own
C20_Witness ==
    \E t \in Threads :
        /\ th[t].op = "add"
        /\ th[t].pc = "load"
        /\ th[t].resizes = 0
        /\ th[t].current_cap # 0
        /\ th[t].current_cap # capacity

\* a step in which thread t returns from a call of o
Returns(t, o) == th[t].op = o /\ th[t].pc # "idle" /\ th'[t].pc = "idle"

\* the tables with the candidate slot that holds k cleared
Cleared(tab, tsz, k, current_capacity) ==
    IF SlotHolds(tab, tsz, 0, h1(k, current_capacity), k, current_capacity)
    THEN Reset(tab, 0, h1(k, current_capacity))
    ELSE Reset(tab, 1, h2(k, current_capacity))

\* C21: a remove(key) that returns while key is stored in one of its two candidate
\* slots returns true, having cleared exactly that slot and taken one off the
\* live-count, with every other slot and the capacity as they were; one that
\* returns while key is in neither slot returns false and has changed nothing.
C21_RemoveFrame ==
    [][\A t \in Threads :
          Returns(t, "remove") =>
              IF Present(th[t].x)
              THEN /\ th'[t].ret
                   /\ table' = Cleared(table, tsize, th[t].x, capacity)
                   /\ current_size' = current_size - 1
                   /\ capacity' = capacity /\ tsize' = tsize
              ELSE /\ ~th'[t].ret
                   /\ table' = table
                   /\ current_size' = current_size
                   /\ capacity' = capacity /\ tsize' = tsize]_vars

\* a step of a contains call of thread t, from its invocation to its return
ContainsStep(t) == th'[t].pc # th[t].pc /\ th'[t].op = "contains"

\* C22: no step of a contains(key) call changes the tables, their lengths, the
\* capacity or the live-count; and a contains(key) during which no other thread
\* had a call in progress returns true exactly when key is stored in
\* T0[h1(key, capacity)] or in T1[h2(key, capacity)].
C22_ContainsReadOnly ==
    [][\A t \in Threads :
          /\ ContainsStep(t) => UNCHANGED <<table, tsize, capacity, current_size>>
          /\ (Returns(t, "contains") /\ th[t].alone) =>
                 (th'[t].ret <=> Present(th[t].x))]_vars

C22_Witness ==
    \E t \in Threads :
        /\ phase = "run"
        /\ Finished(t, "contains") /\ th[t].alone
        /\ th[t].ret /\ Present(th[t].x)

\* ------------------------------------------------------------ the bank test
\* run_custom_tests of tests.cc: THREAD_COUNT workers transfer money between the
\* accounts of a simplemap_t and take balances under a double_shared_lock; the
\* main thread takes one more balance after joining them.

TOTAL_BAL == 1000000

\* the ints of one __m256i
Lanes == 8

\* cfg.key_max
KeyMaxes == {8, 12, 24}

\* cfg.threads
THREAD_COUNT == 3

\* cfg.iters / THREAD_COUNT, the operations of one worker
BankIters == 1

Workers == 1 .. THREAD_COUNT

MainThread == THREAD_COUNT + 1

BankThreads == Workers \cup {MainThread}

\* the operations a worker draws from: <<"deposit", b1, b2>> or <<"balance", 0, 0>>
BankCalls(t) ==
    IF t = 1 THEN {<<"deposit", 0, 1>>, <<"deposit", 1, 1>>}
    ELSE IF t = 2 THEN {<<"deposit", 1, 0>>, <<"deposit", 2, 3>>, <<"balance", 0, 0>>}
    ELSE {<<"balance", 0, 0>>}

\* val_dist: the largest value it draws
DepositValues == {TOTAL_BAL \div (NUM_ACCOUNT * 2)}

\* the three condition variables and the fields of shared_lock
shared_lock == <<deposit_ops, notifier_lock, is_balanced_locked, is_deposit_locked,
                 notifications, done_deposits, done_balance, waiting_for_notif>>

\* what run_custom_tests fixes before the workers start
config == <<NUM_ACCOUNT, aligned>>

cuckoo == <<table, tsize, capacity, current_size, locks, th, abs, added, removed,
            successful_adds, successful_removes, initial_size, pre, phase, harness,
            phased>>

IdleBank ==
    [pc |-> "idle", op |-> "none", b1 |-> 0, b2 |-> 0, value |-> 0, l1 |-> 0, l2 |-> 0,
     before |-> 0, acc1 |-> 0, acc2 |-> 0, status |-> TRUE, total |-> 0, n |-> 0,
     vec |-> [j \in 0 .. (Lanes - 1) |-> 0], it |-> 0]

\* simplemap_t::insert
insert(vals, size, key, val) ==
    IF key >= size THEN vals ELSE [i \in DOMAIN vals \cup {key} |->
                                      IF i = key THEN val ELSE vals[i]]

\* simplemap_t::update
update(vals, size, key, val) ==
    IF size <= key \/ key < 0 THEN vals ELSE [vals EXCEPT ![key] = val]

\* simplemap_t::lookup
lookup(vals, size, key) ==
    IF size <= key \/ key < 0 THEN [first |-> 0, second |-> FALSE]
    ELSE [first |-> vals[key], second |-> TRUE]

\* Step 2 of run_custom_tests: insert(i, TOTAL_BAL / NUM_ACCOUNT) for every account
RECURSIVE Populated(_, _, _)
Populated(vals, size, i) ==
    IF i >= size THEN vals
    ELSE Populated(insert(vals, size, i, TOTAL_BAL \div size), size, i + 1)

BankInit ==
    /\ Constructed(InitCap)
    /\ phase = "bank"
    /\ harness = 0
    /\ NUM_ACCOUNT \in KeyMaxes
    /\ values = Populated(<< >>, NUM_ACCOUNT, 0)
    /\ aligned \in BOOLEAN
    /\ account_locks = [l \in 0 .. (NUM_ACCOUNT - 1) |-> NoThread]
    /\ deposit_ops = 0
    /\ notifier_lock = NoThread
    /\ is_balanced_locked = FALSE
    /\ is_deposit_locked = FALSE
    /\ notifications = << >>
    /\ done_deposits = {}
    /\ done_balance = {}
    /\ waiting_for_notif = {}
    /\ bt = [t \in BankThreads |-> IdleBank]
    /\ failed = "none"
    /\ NoPhased

At(t, p) == failed = "none" /\ bt[t].pc = p

\* the end of one iteration of do_work, and of the balance of the main thread
Done(r) == [IdleBank EXCEPT !.it = r.it + 1, !.op = r.op, !.total = r.total]

\* a deposit that locks the mutex of b1 first, whichever is lower
BankCallUnordered(t, c) ==
    /\ At(t, "idle")
    /\ t \in Workers
    /\ bt[t].it < BankIters
    /\ c \in BankCalls(t)
    /\ IF c[1] = "balance"
       THEN bt' = [bt EXCEPT ![t] = [IdleBank EXCEPT !.it = bt[t].it, !.op = "balance",
                                                      !.pc = "register"]]
       ELSE \E v \in DepositValues :
              bt' = [bt EXCEPT ![t] =
                       IF c[2] = c[3]
                       THEN Done([bt[t] EXCEPT !.op = "deposit"])
                       ELSE [IdleBank EXCEPT !.it = bt[t].it, !.op = "deposit",
                                             !.b1 = c[2], !.b2 = c[3], !.value = v,
                                             !.l1 = c[2] % NUM_ACCOUNT,
                                             !.l2 = c[3] % NUM_ACCOUNT,
                                             !.pc = "lock_l1"]]
    /\ UNCHANGED <<cuckoo, config, values, account_locks, shared_lock, failed>>

\* do_work: the next operation of a worker (lines 120-133)
BankCall(t, c) ==
    /\ At(t, "idle")
    /\ t \in Workers
    /\ bt[t].it < BankIters
    /\ c \in BankCalls(t)
    /\ IF c[1] = "balance"
       THEN bt' = [bt EXCEPT ![t] = [IdleBank EXCEPT !.it = bt[t].it, !.op = "balance",
                                                      !.pc = "register"]]
       ELSE \E v \in DepositValues :
              LET lo == c[2] % NUM_ACCOUNT
                  hi == c[3] % NUM_ACCOUNT
              IN  bt' = [bt EXCEPT ![t] =
                           IF c[2] = c[3]
                           THEN Done([bt[t] EXCEPT !.op = "deposit"])
                           ELSE [IdleBank EXCEPT !.it = bt[t].it, !.op = "deposit",
                                                 !.b1 = c[2], !.b2 = c[3], !.value = v,
                                                 !.l1 = Min2(lo, hi), !.l2 = Max2(lo, hi),
                                                 !.pc = "lock_l1"]]
    /\ UNCHANGED <<cuckoo, config, values, account_locks, shared_lock, failed>>

\* the threads are joined and main calls balance() (lines 150-159)
FinalBalance ==
    /\ At(MainThread, "idle")
    /\ bt[MainThread].it = 0
    /\ \A t \in Workers : bt[t].pc = "idle" /\ bt[t].it = BankIters
    /\ bt' = [bt EXCEPT ![MainThread] = [IdleBank EXCEPT !.op = "balance",
                                                         !.pc = "register"]]
    /\ UNCHANGED <<cuckoo, config, values, account_locks, shared_lock, failed>>

\* ---- deposit (lines 56-94)
\* locks[l1]->lock()
LockFirst(t) ==
    /\ At(t, "lock_l1")
    /\ account_locks[bt[t].l1] = NoThread
    /\ account_locks' = [account_locks EXCEPT ![bt[t].l1] = t]
    /\ bt' = [bt EXCEPT ![t].pc = IF bt[t].l1 # bt[t].l2 THEN "lock_l2" ELSE "ld_read"]
    /\ UNCHANGED <<cuckoo, config, values, shared_lock, failed>>

\* locks[l2]->lock()
LockSecond(t) ==
    /\ At(t, "lock_l2")
    /\ account_locks[bt[t].l2] = NoThread
    /\ account_locks' = [account_locks EXCEPT ![bt[t].l2] = t]
    /\ bt' = [bt EXCEPT ![t].pc = "ld_read"]
    /\ UNCHANGED <<cuckoo, config, values, shared_lock, failed>>

\* ---- double_shared_lock::lock_deposit
\* int before = deposit_ops; if (before == 0) break;
LockDepositRead(t) ==
    /\ At(t, "ld_read")
    /\ bt' = [bt EXCEPT ![t].before = deposit_ops,
                        ![t].pc = IF deposit_ops = 0 THEN "ld_mutex" ELSE "ld_cas"]
    /\ UNCHANGED <<cuckoo, config, values, account_locks, shared_lock, failed>>

\* deposit_ops.compare_exchange_weak(before, before + 1), which may also fail
\* when deposit_ops equals before
LockDepositCas(t) ==
    /\ At(t, "ld_cas")
    /\ \/ /\ deposit_ops = bt[t].before
          /\ deposit_ops' = bt[t].before + 1
          /\ bt' = [bt EXCEPT ![t].pc = "lookup"]
       \/ /\ UNCHANGED deposit_ops
          /\ bt' = [bt EXCEPT ![t].pc = "ld_read"]
    /\ UNCHANGED <<cuckoo, config, values, account_locks, notifier_lock,
                   is_balanced_locked, is_deposit_locked, notifications,
                   done_deposits, done_balance, waiting_for_notif, failed>>

\* std::unique_lock<std::mutex> notifier_lock_unique(notifier_lock), and the
\* reacquisition of the mutex by a thread a notify_all has woken
LockNotifier(t) ==
    /\ failed = "none"
    /\ bt[t].pc \in {"ld_mutex", "ld_woken", "ud_mutex", "register", "rb_woken",
                      "rn_woken", "complete"}
    /\ t \notin done_deposits \cup done_balance \cup waiting_for_notif
    /\ notifier_lock = NoThread
    /\ notifier_lock' = t
    /\ bt' = [bt EXCEPT ![t].pc =
                 CASE bt[t].pc = "ld_mutex" -> "ld_locked"
                   [] bt[t].pc = "ld_woken" -> "ld_wait"
                   [] bt[t].pc = "ud_mutex" -> "ud_dec"
                   [] bt[t].pc = "register" -> "rb_wait"
                   [] bt[t].pc = "rb_woken" -> "rb_wait"
                   [] bt[t].pc = "rn_woken" -> "rb_notif"
                   [] OTHER -> "cb_locked",
                        ![t].total = IF bt[t].pc = "register" THEN 0 - 1 ELSE bt[t].total]
    /\ UNCHANGED <<cuckoo, config, values, account_locks, deposit_ops,
                   is_balanced_locked, is_deposit_locked, notifications,
                   done_deposits, done_balance, waiting_for_notif, failed>>

\* if (is_deposit_locked) { deposit_ops++; return; }
LockDepositLocked(t) ==
    /\ At(t, "ld_locked")
    /\ IF is_deposit_locked
       THEN /\ deposit_ops' = deposit_ops + 1
            /\ notifier_lock' = NoThread
            /\ bt' = [bt EXCEPT ![t].pc = "lookup"]
       ELSE /\ bt' = [bt EXCEPT ![t].pc = "ld_wait"]
            /\ UNCHANGED <<deposit_ops, notifier_lock>>
    /\ UNCHANGED <<cuckoo, config, values, account_locks, is_balanced_locked,
                   is_deposit_locked, notifications, done_deposits, done_balance,
                   waiting_for_notif, failed>>

\* while (is_balanced_locked) done_balance.wait(...); deposit_ops++;
\* is_deposit_locked = true
LockDepositWait(t) ==
    /\ At(t, "ld_wait")
    /\ IF is_balanced_locked
       THEN /\ done_balance' = done_balance \cup {t}
            /\ notifier_lock' = NoThread
            /\ bt' = [bt EXCEPT ![t].pc = "ld_woken"]
            /\ UNCHANGED <<deposit_ops, is_deposit_locked>>
       ELSE /\ deposit_ops' = deposit_ops + 1
            /\ is_deposit_locked' = TRUE
            /\ notifier_lock' = NoThread
            /\ bt' = [bt EXCEPT ![t].pc = "lookup"]
            /\ UNCHANGED done_balance
    /\ UNCHANGED <<cuckoo, config, values, account_locks, is_balanced_locked,
                   notifications, done_deposits, waiting_for_notif, failed>>

\* ---- the transaction (lines 74-84)
Lookup(t) ==
    /\ At(t, "lookup")
    /\ LET acc1 == lookup(values, NUM_ACCOUNT, bt[t].b1)
           acc2 == lookup(values, NUM_ACCOUNT, bt[t].b2)
       IN  bt' = [bt EXCEPT ![t] =
                    IF ~acc1.second \/ ~acc2.second
                    THEN [bt[t] EXCEPT !.status = FALSE, !.pc = "ud_read"]
                    ELSE [bt[t] EXCEPT !.acc1 = acc1.first, !.acc2 = acc2.first,
                                       !.value = IF bt[t].value > acc1.first
                                                 THEN acc1.first ELSE bt[t].value,
                                       !.pc = "update1"]]
    /\ UNCHANGED <<cuckoo, config, values, account_locks, shared_lock, failed>>

\* map.update(b1, acc1.first - value)
UpdateFirst(t) ==
    /\ At(t, "update1")
    /\ values' = update(values, NUM_ACCOUNT, bt[t].b1, bt[t].acc1 - bt[t].value)
    /\ bt' = [bt EXCEPT ![t].pc = "update2"]
    /\ UNCHANGED <<cuckoo, config, account_locks, shared_lock, failed>>

\* map.update(b2, acc2.first + value)
UpdateSecond(t) ==
    /\ At(t, "update2")
    /\ values' = update(values, NUM_ACCOUNT, bt[t].b2, bt[t].acc2 + bt[t].value)
    /\ bt' = [bt EXCEPT ![t].pc = "ud_read"]
    /\ UNCHANGED <<cuckoo, config, account_locks, shared_lock, failed>>

\* ---- double_shared_lock::unlock_deposit
\* int before = deposit_ops; if (before == 1) break;
UnlockDepositRead(t) ==
    /\ At(t, "ud_read")
    /\ bt' = [bt EXCEPT ![t].before = deposit_ops,
                        ![t].pc = IF deposit_ops = 1 THEN "ud_mutex" ELSE "ud_cas"]
    /\ UNCHANGED <<cuckoo, config, values, account_locks, shared_lock, failed>>

\* deposit_ops.compare_exchange_weak(before, before - 1)
UnlockDepositCas(t) ==
    /\ At(t, "ud_cas")
    /\ \/ /\ deposit_ops = bt[t].before
          /\ deposit_ops' = bt[t].before - 1
          /\ bt' = [bt EXCEPT ![t].pc = "unlock_l"]
       \/ /\ UNCHANGED deposit_ops
          /\ bt' = [bt EXCEPT ![t].pc = "ud_read"]
    /\ UNCHANGED <<cuckoo, config, values, account_locks, notifier_lock,
                   is_balanced_locked, is_deposit_locked, notifications,
                   done_deposits, done_balance, waiting_for_notif, failed>>

\* deposit_ops--
UnlockDepositDecrement(t) ==
    /\ At(t, "ud_dec")
    /\ deposit_ops' = deposit_ops - 1
    /\ bt' = [bt EXCEPT ![t].pc = "ud_test"]
    /\ UNCHANGED <<cuckoo, config, values, account_locks, notifier_lock,
                   is_balanced_locked, is_deposit_locked, notifications,
                   done_deposits, done_balance, waiting_for_notif, failed>>

\* if (deposit_ops == 0) { is_deposit_locked = false; done_deposits.notify_all(); }
UnlockDepositTest(t) ==
    /\ At(t, "ud_test")
    /\ IF deposit_ops = 0
       THEN is_deposit_locked' = FALSE /\ done_deposits' = {}
       ELSE UNCHANGED <<is_deposit_locked, done_deposits>>
    /\ notifier_lock' = NoThread
    /\ bt' = [bt EXCEPT ![t].pc = "unlock_l"]
    /\ UNCHANGED <<cuckoo, config, values, account_locks, deposit_ops,
                   is_balanced_locked, notifications, done_balance,
                   waiting_for_notif, failed>>

\* locks[l1]->unlock(); locks[l2]->unlock(); return status; and the do_assert of
\* do_work (line 132)
UnlockAccounts(t) ==
    /\ At(t, "unlock_l")
    /\ account_locks' = [l \in DOMAIN account_locks |->
                            IF l \in {bt[t].l1, bt[t].l2} THEN NoThread
                            ELSE account_locks[l]]
    /\ IF bt[t].status
       THEN bt' = [bt EXCEPT ![t] = Done(bt[t])] /\ UNCHANGED failed
       ELSE failed' = "Deposit failed in multithreaded" /\ UNCHANGED bt
    /\ UNCHANGED <<cuckoo, config, values, shared_lock>>

\* a register_balance that does not wait for the deposits in progress
RegisterBalanceOverDeposits(t) ==
    /\ At(t, "rb_wait")
    /\ IF is_balanced_locked
       THEN /\ notifications' = Append(notifications, t)
            /\ bt' = [bt EXCEPT ![t].pc = "rb_notif"]
            /\ UNCHANGED <<is_balanced_locked, done_deposits, notifier_lock>>
       ELSE /\ is_balanced_locked' = TRUE
            /\ notifier_lock' = NoThread
            /\ bt' = [bt EXCEPT ![t].pc = "sum"]
            /\ UNCHANGED <<notifications, done_deposits>>
    /\ UNCHANGED <<cuckoo, config, values, account_locks, deposit_ops,
                   is_deposit_locked, done_balance, waiting_for_notif, failed>>

\* ---- double_shared_lock::register_balance
\* while (is_deposit_locked) done_deposits.wait(...); then join the balance in
\* progress or take the lock in balance mode
RegisterBalance(t) ==
    /\ At(t, "rb_wait")
    /\ IF is_deposit_locked
       THEN /\ done_deposits' = done_deposits \cup {t}
            /\ notifier_lock' = NoThread
            /\ bt' = [bt EXCEPT ![t].pc = "rb_woken"]
            /\ UNCHANGED <<is_balanced_locked, notifications>>
       ELSE IF is_balanced_locked
       THEN /\ notifications' = Append(notifications, t)
            /\ bt' = [bt EXCEPT ![t].pc = "rb_notif"]
            /\ UNCHANGED <<is_balanced_locked, done_deposits, notifier_lock>>
       ELSE /\ is_balanced_locked' = TRUE
            /\ notifier_lock' = NoThread
            /\ bt' = [bt EXCEPT ![t].pc = "sum"]
            /\ UNCHANGED <<notifications, done_deposits>>
    /\ UNCHANGED <<cuckoo, config, values, account_locks, deposit_ops,
                   is_deposit_locked, done_balance, waiting_for_notif, failed>>

\* while (*result == -1) waiting_for_notif.wait(...); return false
AwaitNotification(t) ==
    /\ At(t, "rb_notif")
    /\ IF bt[t].total = 0 - 1
       THEN /\ waiting_for_notif' = waiting_for_notif \cup {t}
            /\ bt' = [bt EXCEPT ![t].pc = "rn_woken"]
       ELSE /\ bt' = [bt EXCEPT ![t].pc = "returned"]
            /\ UNCHANGED waiting_for_notif
    /\ notifier_lock' = NoThread
    /\ UNCHANGED <<cuckoo, config, values, account_locks, deposit_ops,
                   is_balanced_locked, is_deposit_locked, notifications,
                   done_deposits, done_balance, failed>>

\* ---- simplemap_t::parallel_sum
\* the first load and the test of size % 8; _mm256_load_si256 of an address that
\* is not on a 32-byte boundary faults
SumFirst(t) ==
    /\ At(t, "sum")
    /\ IF ~aligned
       THEN failed' = "Segmentation fault" /\ UNCHANGED bt
       ELSE /\ bt' = [bt EXCEPT ![t] =
                       IF NUM_ACCOUNT % Lanes # 0
                       THEN [bt[t] EXCEPT !.total = 0 - 1, !.pc = "complete"]
                       ELSE [bt[t] EXCEPT !.vec = [j \in 0 .. (Lanes - 1) |-> values[j]],
                                          !.n = Lanes, !.pc = "sum_loop"]]
            /\ UNCHANGED failed
    /\ UNCHANGED <<cuckoo, config, values, account_locks, shared_lock>>

\* one turn of the loop, and after it the sum of the eight lanes
SumNext(t) ==
    /\ At(t, "sum_loop")
    /\ LET r == bt[t]
       IN  bt' = [bt EXCEPT ![t] =
                    IF r.n < NUM_ACCOUNT
                    THEN [r EXCEPT !.vec = [j \in 0 .. (Lanes - 1) |->
                                              r.vec[j] + values[r.n + j]],
                                   !.n = r.n + Lanes]
                    ELSE [r EXCEPT !.total = r.vec[0] + r.vec[1] + r.vec[2] + r.vec[3]
                                             + r.vec[4] + r.vec[5] + r.vec[6] + r.vec[7],
                                   !.pc = "complete"]]
    /\ UNCHANGED <<cuckoo, config, values, account_locks, shared_lock, failed>>

\* ---- double_shared_lock::complete_balance
CompleteBalance(t) ==
    /\ At(t, "cb_locked")
    /\ bt' = [u \in BankThreads |->
                 IF u = t THEN [bt[t] EXCEPT !.pc = "returned"]
                 ELSE IF \E i \in DOMAIN notifications : notifications[i] = u
                 THEN [bt[u] EXCEPT !.total = bt[t].total]
                 ELSE bt[u]]
    /\ notifications' = << >>
    /\ is_balanced_locked' = FALSE
    /\ waiting_for_notif' = {}
    /\ done_balance' = {}
    /\ notifier_lock' = NoThread
    /\ UNCHANGED <<cuckoo, config, values, account_locks, deposit_ops,
                   is_deposit_locked, done_deposits, failed>>

\* balance() has returned total: the test of do_work (lines 125-128) and of the
\* main thread (line 159)
CheckBalance(t) ==
    /\ At(t, "returned")
    /\ IF bt[t].total # TOTAL_BAL
       THEN /\ failed' = (IF t = MainThread THEN "End balance failed"
                          ELSE "Balance is incorrect in multithreaded")
            /\ UNCHANGED bt
       ELSE /\ bt' = [bt EXCEPT ![t] = Done(bt[t])]
            /\ UNCHANGED failed
    /\ UNCHANGED <<cuckoo, config, values, account_locks, shared_lock>>

NextBank ==
    \/ \E t \in Workers : \E c \in BankCalls(t) : BankCall(t, c)
    \/ FinalBalance
    \/ \E t \in BankThreads : LockFirst(t)
    \/ \E t \in BankThreads : LockSecond(t)
    \/ \E t \in BankThreads : LockDepositRead(t)
    \/ \E t \in BankThreads : LockDepositCas(t)
    \/ \E t \in BankThreads : LockNotifier(t)
    \/ \E t \in BankThreads : LockDepositLocked(t)
    \/ \E t \in BankThreads : LockDepositWait(t)
    \/ \E t \in BankThreads : Lookup(t)
    \/ \E t \in BankThreads : UpdateFirst(t)
    \/ \E t \in BankThreads : UpdateSecond(t)
    \/ \E t \in BankThreads : UnlockDepositRead(t)
    \/ \E t \in BankThreads : UnlockDepositCas(t)
    \/ \E t \in BankThreads : UnlockDepositDecrement(t)
    \/ \E t \in BankThreads : UnlockDepositTest(t)
    \/ \E t \in BankThreads : UnlockAccounts(t)
    \/ \E t \in BankThreads : RegisterBalance(t)
    \/ \E t \in BankThreads : AwaitNotification(t)
    \/ \E t \in BankThreads : SumFirst(t)
    \/ \E t \in BankThreads : SumNext(t)
    \/ \E t \in BankThreads : CompleteBalance(t)
    \/ \E t \in BankThreads : CheckBalance(t)

SpecBank == BankInit /\ [][NextBank]_vars

\* the steps of thread t
BankRun(t) ==
    \/ \E c \in BankCalls(t) : BankCall(t, c)
    \/ t = MainThread /\ FinalBalance
    \/ LockFirst(t) \/ LockSecond(t)
    \/ LockDepositRead(t) \/ LockDepositCas(t) \/ LockNotifier(t)
    \/ LockDepositLocked(t) \/ LockDepositWait(t)
    \/ Lookup(t) \/ UpdateFirst(t) \/ UpdateSecond(t)
    \/ UnlockDepositRead(t) \/ UnlockDepositCas(t) \/ UnlockDepositDecrement(t)
    \/ UnlockDepositTest(t) \/ UnlockAccounts(t)
    \/ RegisterBalance(t) \/ AwaitNotification(t)
    \/ SumFirst(t) \/ SumNext(t) \/ CompleteBalance(t) \/ CheckBalance(t)

\* a compare_exchange_weak of thread t that succeeds
CasDone(t) ==
    \/ LockDepositCas(t) /\ bt'[t].pc = "lookup"
    \/ UnlockDepositCas(t) /\ bt'[t].pc = "unlock_l"

\* the bank test under a scheduler that does not leave a thread that can take a
\* step, or a thread waiting for a mutex that stays free, waiting forever, and
\* with a compare_exchange_weak that does not fail for ever while deposit_ops
\* holds the value expected
SpecBankFair ==
    /\ BankInit /\ [][NextBank]_vars
    /\ \A t \in BankThreads : WF_vars(BankRun(t)) /\ SF_vars(CasDone(t))

\* C23: every balance() of the bank test, taken by a worker while the others
\* deposit or by the main thread after the join, returns TOTAL_BAL.
C23_BalanceIsTotal ==
    \A t \in DOMAIN bt : bt[t].pc = "returned" => bt[t].total = TOTAL_BAL

\* before the call, key k was absent, its table-0 slot held another key and its
\* table-1 slot was empty
SecondSlotFree(k) ==
    /\ ~WasPresent(k)
    /\ HasValue(pre.table, 0, h1(k, pre.capacity))
    /\ ~HasValue(pre.table, 1, h2(k, pre.capacity))

\* C24: an add(key) that finds key absent, its table-0 slot occupied by another
\* key and its table-1 slot empty stores key in that table-1 slot and moves no
\* other key: afterwards the tables are those before the call with key stored
\* in T1[h2(key)].
C24_SecondSlotTaken ==
    (Finished(1, "add") /\ SecondSlotFree(th[1].x)) =>
        /\ th[1].ret
        /\ capacity = pre.capacity
        /\ table = Store(pre.table, 1, h2(th[1].x, pre.capacity), th[1].x)

\* the copies of key k among the slots of tab and the displaced item
Copies(tab, item, k) ==
    Cardinality({p \in DOMAIN tab[0] : tab[0][p] = k})
    + Cardinality({p \in DOMAIN tab[1] : tab[1][p] = k})
    + (IF item = k THEN 1 ELSE 0)

\* the same multiset of keys is held by (tab1, item1) and by (tab2, item2)
SameKeys(tab1, item1, tab2, item2) ==
    \A k \in (StoredKeys(tab1) \cup StoredKeys(tab2) \cup {item1, item2}) \ {NoKey} :
        Copies(tab1, item1, k) = Copies(tab2, item2, k)

\* every slot that differs between tab1 and tab2 holds, in tab2, a key that
\* hashes to it
StoredAtHash(tab1, tab2, cap) ==
    \A i \in DOMAIN tab2 : \A p \in DOMAIN tab2[i] :
        (p \notin DOMAIN tab1[i] \/ tab1[i][p] # tab2[i][p]) =>
            p = SlotOf(tab2[i][p], i, cap)

\* the item a chain of add_cuckoo_unsafe carries after a turn
Carried(s) == IF s.done /\ s.ok THEN NoKey ELSE s.current_item

\* every turn of the chain of add_cuckoo_unsafe that starts in s conserves the keys
RECURSIVE ChainConserves(_, _, _, _)
ChainConserves(s, turns, tsz, target_capacity) ==
    IF s.done \/ turns <= 0 THEN TRUE
    ELSE \A n \in {CuckooTurn(s, tsz, target_capacity)} :
            /\ SameKeys(s.table, s.current_item, n.table, Carried(n))
            /\ StoredAtHash(s.table, n.table, target_capacity)
            /\ ChainConserves(n, turns - 1, tsz, target_capacity)

\* the rehash loop of resize over the slots lo .. hi - 1 of table i, with the
\* chain of every add_cuckoo_unsafe it calls examined
RECURSIVE RehashExamined(_, _, _, _, _, _)
RehashExamined(acc, i, lo, hi, new_tsz, new_capacity) ==
    IF i \notin DOMAIN acc.st.old \/ hi <= lo THEN acc
    ELSE IF hi = lo + 1
    THEN [st |-> RehashSlot(acc.st, i, lo, new_tsz, new_capacity),
          conserved |->
              /\ acc.conserved
              /\ HasValue(acc.st.old, i, lo) =>
                     ChainConserves([ok |-> FALSE, done |-> FALSE, table |-> acc.st.new,
                                     current_item |-> acc.st.old[i][lo],
                                     current_table_idx |-> 0],
                                    MAX_KICK_LIMIT, new_tsz, new_capacity)]
    ELSE LET mid == (lo + hi) \div 2
         IN  CHOOSE last \in {RehashExamined(first, i, mid, hi, new_tsz, new_capacity) :
                                first \in {RehashExamined(acc, i, lo, mid, new_tsz,
                                                          new_capacity)}} :
                 TRUE

\* the chains of the resize that thread t is about to run
RehashConserves(t) ==
    LET old_capacity == th[t].old_capacity
        new_capacity == NewCapacity(old_capacity)
        new_tsz == [i \in 0 .. (NUM_TABLES - 1) |-> new_capacity]
        acc0 == [st |-> [old |-> table, new |-> EmptyTable, rehash_failures |-> 0,
                         current_elements_found |-> 0],
                 conserved |-> TRUE]
    IN  \A acc1 \in {RehashExamined(acc0, 0, 0, Min2(old_capacity, tsize[0]), new_tsz,
                                    new_capacity)} :
        \A acc2 \in {RehashExamined(acc1, 1, 0, Min2(old_capacity, tsize[1]), new_tsz,
                                    new_capacity)} :
            acc2.conserved

\* C25: with one thread running, every step of a relocation chain conserves the
\* keys.  In add, the keys stored in the tables together with the displaced item
\* are the same multiset before and after each step of the kick loop, up to the
\* step that places the item or ends the loop, and each slot the step writes
\* holds a key that hashes to it in that table under the capacity in use.  The
\* same holds of every turn of every add_cuckoo_unsafe that a resize runs.
C25_ChainConservesKeys ==
    [][/\ (th[1].op = "add" /\ th[1].pc \in {"kick", "kickw"}) =>
              /\ SameKeys(table, th[1].current_item, table',
                          IF th'[1].pc = "idle" THEN NoKey ELSE th'[1].current_item)
              /\ StoredAtHash(table, table', th[1].current_cap)
       /\ th[1].pc = "rehash" => RehashConserves(1)]_vars

C25_Witness ==
    /\ th[1].pc = "rehash"
    /\ th[1].exhaustions >= 1
    /\ Rehash(table, tsize, th[1].old_capacity,
              NewCapacity(th[1].old_capacity)).rehash_failures > 0

\* the rehash loop of resize over the slots lo .. hi - 1 of table i, with the
\* add_cuckoo_unsafe calls it makes collected: the item and the tables it is
\* added to
RECURSIVE RehashCalls(_, _, _, _, _, _)
RehashCalls(acc, i, lo, hi, new_tsz, new_capacity) ==
    IF i \notin DOMAIN acc.st.old \/ hi <= lo THEN acc
    ELSE IF hi = lo + 1
    THEN [st |-> RehashSlot(acc.st, i, lo, new_tsz, new_capacity),
          calls |-> IF HasValue(acc.st.old, i, lo)
                    THEN acc.calls \cup {[item |-> acc.st.old[i][lo],
                                          target |-> acc.st.new]}
                    ELSE acc.calls]
    ELSE LET mid == (lo + hi) \div 2
         IN  CHOOSE last \in {RehashCalls(first, i, mid, hi, new_tsz, new_capacity) :
                                first \in {RehashCalls(acc, i, lo, mid, new_tsz,
                                                       new_capacity)}} :
                 TRUE

\* the next `turns` turns of the loop of add_cuckoo_unsafe from c.s on, with the
\* displacements they make added to c.made: the first half of the turns, then
\* the rest from where the first half has left
RECURSIVE ChainCount(_, _, _, _)
ChainCount(c, turns, tsz, target_capacity) ==
    IF c.s.done \/ turns <= 0 THEN c
    ELSE IF turns = 1
    THEN CHOOSE last \in {[s |-> n, made |-> c.made + (IF n.done THEN 0 ELSE 1)] :
                            n \in {CuckooTurn(c.s, tsz, target_capacity)}} : TRUE
    ELSE LET half == turns \div 2
         IN  CHOOSE last \in {ChainCount(first, turns - half, tsz, target_capacity) :
                                first \in {ChainCount(c, half, tsz, target_capacity)}} :
                 TRUE

\* the displacements made by the chain of add_cuckoo_unsafe from s on, followed
\* for at most `turns` turns
Displacements(s, turns, tsz, target_capacity) ==
    ChainCount([s |-> s, made |-> 0], turns, tsz, target_capacity).made

\* every add_cuckoo_unsafe of the resize that thread t is about to run either
\* places its item or reports failure after MAX_KICK_LIMIT displacements
RehashChainsEnd(t) ==
    LET old_capacity == th[t].old_capacity
        new_capacity == NewCapacity(old_capacity)
        new_tsz == [i \in 0 .. (NUM_TABLES - 1) |-> new_capacity]
        acc0 == [st |-> [old |-> table, new |-> EmptyTable, rehash_failures |-> 0,
                         current_elements_found |-> 0],
                 calls |-> {}]
    IN  \A acc1 \in {RehashCalls(acc0, 0, 0, Min2(old_capacity, tsize[0]), new_tsz,
                                 new_capacity)} :
        \A acc2 \in {RehashCalls(acc1, 1, 0, Min2(old_capacity, tsize[1]), new_tsz,
                                 new_capacity)} :
        \A c \in acc2.calls :
            LET start == [ok |-> FALSE, done |-> FALSE, table |-> c.target,
                          current_item |-> c.item, current_table_idx |-> 0]
                made == Displacements(start, 2 * MAX_KICK_LIMIT, new_tsz, new_capacity)
                r == add_cuckoo_unsafe(c.item, c.target, new_tsz, new_capacity)
            IN  IF r.ok
                THEN /\ made < MAX_KICK_LIMIT
                     /\ SameKeys(c.target, c.item, r.table, NoKey)
                ELSE /\ made >= MAX_KICK_LIMIT
                     /\ Cardinality(StoredKeys(r.table))
                          <= Cardinality(StoredKeys(c.target) \cup {c.item})

\* C26: a relocation chain makes at most MAX_KICK_LIMIT displacements and then
\* stops, whatever the displaced keys are.  In add, the kick counter never
\* exceeds MAX_KICK_LIMIT, the loop runs only below it, and a step of the loop
\* either continues it, or returns true having stored the item in an empty
\* slot, or ends it with the exhaustion reported (resize_check).  In resize,
\* every add_cuckoo_unsafe either places its item after fewer than
\* MAX_KICK_LIMIT displacements or returns false, where the chain would
\* otherwise have gone on.
C26_ChainBounded ==
    [][\A t \in Threads :
          /\ th[t].kick <= MAX_KICK_LIMIT
          /\ th[t].pc \in {"kick", "kickw"} =>
                /\ th[t].kick < MAX_KICK_LIMIT
                /\ \/ th'[t].pc = th[t].pc /\ th'[t].kick = th[t].kick
                   \/ /\ th[t].pc = "kick" /\ th'[t].pc = "kickw"
                      /\ th'[t].kick = th[t].kick
                   \/ /\ th[t].pc = "kickw" /\ th[t].seen # NoKey
                      /\ th'[t].pc = "kick" /\ th'[t].kick = th[t].kick + 1
                   \/ /\ th[t].pc = "kickw" /\ th[t].seen = NoKey
                      /\ th'[t].pc = "idle" /\ th'[t].ret
                   \/ /\ th'[t].pc = "resize_check"
                      /\ th'[t].exhaustions = th[t].exhaustions + 1
                      /\ th[t].pc = "kickw" => th'[t].kick = MAX_KICK_LIMIT
          /\ th[t].pc = "rehash" => RehashChainsEnd(t)]_vars

C26_Witness ==
    /\ th[1].pc = "resize_check"
    /\ th[1].kick = MAX_KICK_LIMIT
    /\ th[1].exhaustions = 1

\* the stripes thread t holds
Held(t) == {l \in DOMAIN locks : locks[l] = t}

\* C27: an add whose chain is exhausted has released every stripe lock before it
\* calls resize: a thread that is entering resize holds no stripe, and while it
\* runs the lock-all loop it holds exactly the stripes that loop has locked so far.
C27_UnlockedBeforeResize ==
    \A t \in Threads :
        /\ th[t].pc = "resize" => Held(t) = {}
        /\ th[t].pc = "lock_all" => Held(t) = {l \in DOMAIN locks : l < th[t].i}

C27_Witness ==
    \E t \in Threads :
        /\ th[t].pc = "lock_all" /\ th[t].i = 0
        /\ th[t].exhaustions >= 1
        /\ \E u \in Threads : u # t /\ Held(u) # {}

\* C28: stripe locks are taken in ascending index order and never twice.  A
\* thread about to lock stripe l (acquire_lock1, acquire_lock2 or the lock-all
\* loop of resize) does not hold l, and every stripe it holds has a smaller index
\* than l; every step that locks a stripe for a thread locks one above all those
\* the thread holds.  When the two stripes of a key coincide, acquire_lock2 locks
\* nothing.
C28_AscendingLocks ==
    [][\A t \in Threads :
          /\ \A l \in Waits(t) : locks[l] # t /\ \A m \in Held(t) : m < l
          /\ \A l \in DOMAIN locks :
                (locks'[l] = t /\ locks[l] # t) =>
                    /\ l \in Waits(t)
                    /\ locks[l] = NoThread
                    /\ \A m \in Held(t) : m < l
          /\ (th[t].pc = "lock2" /\ th'[t].pc = "check"
              /\ th[t].lock_idx1 = th[t].lock_idx2) => locks' = locks]_vars

C28_Witness ==
    \E t \in Threads, u \in Threads :
        /\ th[t].pc = "check" /\ th[t].op \in {"remove", "contains"}
        /\ th[t].lock_idx1 < th[t].lock_idx2
        /\ Held(t) = {th[t].lock_idx1, th[t].lock_idx2}
        /\ th[u].pc = "lock_all" /\ Blocked(u)

\* C29: the live-count changes only in a step of a thread that holds a stripe
\* lock: add and remove change it while holding the stripes they locked for
\* their key, resize while holding every stripe.
C29_CountUnderStripe ==
    [][current_size' # current_size =>
          \E t \in Threads :
              /\ th'[t].pc # th[t].pc
              /\ IF th[t].pc = "rehash" THEN HoldsAll(t)
                 ELSE /\ th[t].pc \in {"kickw", "reset0", "reset1"}
                      /\ {th[t].lock_idx1, th[t].lock_idx2} \subseteq Held(t)]_vars

C29_Witness ==
    /\ phase = "run"
    /\ successful_adds >= 1
    /\ successful_removes >= 1
    /\ current_size # initial_size

\* the steps add, remove and contains take after the capacity test of line 263,
\* 342 or 372 has found capacity equal to the snapshot
Validated == {"probe2", "reset0", "reset1", "kick", "kickw"}

\* C30: resize installs the new tables and the new capacity together, before it
\* unlocks any stripe; so whenever an add, remove or contains holds its stripes
\* and has found capacity equal to its snapshot, capacity still equals the
\* snapshot and each of the two tables has exactly that many slots.
C30_TablesMatchSnapshot ==
    /\ tsize[0] = capacity /\ tsize[1] = capacity
    /\ \A t \in Threads :
          th[t].pc \in Validated =>
              /\ Held(t) # {}
              /\ capacity = th[t].current_cap
              /\ tsize[0] = th[t].current_cap
              /\ tsize[1] = th[t].current_cap

C30_Witness ==
    \E t \in Threads, u \in Threads :
        /\ t # u
        /\ th[u].resizes >= 1 /\ th[u].pc \in {"lock1", "lock2"}
        /\ capacity > InitCap
        /\ th[t].pc \in Validated
        /\ th[t].current_cap = capacity /\ tsize[0] = capacity

\* the account mutexes thread t holds
HeldAccounts(t) == {l \in DOMAIN account_locks : account_locks[l] = t}

\* a deposit between the locking of its account mutexes and their unlocking
DepositLocked ==
    {"ld_read", "ld_cas", "ld_mutex", "ld_locked", "ld_wait", "ld_woken", "lookup",
     "update1", "update2", "ud_read", "ud_cas", "ud_mutex", "ud_dec", "ud_test",
     "unlock_l"}

\* run_custom_tests has returned: every worker has done its operations and the
\* main thread has taken the end balance
BankFinished ==
    /\ \A t \in Workers : bt[t].pc = "idle" /\ bt[t].it = BankIters
    /\ bt[MainThread].pc = "idle" /\ bt[MainThread].it = 1

\* C31: a deposit locks the mutex with the lower index first and the other one,
\* when there is another, second, and enters deposit mode holding exactly these;
\* a balance holds no account mutex.  While the test has neither failed nor
\* finished, some thread can take a step.
C31_BankNoDeadlock ==
    /\ \A t \in DOMAIN bt :
          /\ bt[t].pc = "lock_l1" => bt[t].l1 <= bt[t].l2 /\ HeldAccounts(t) = {}
          /\ bt[t].pc = "lock_l2" => bt[t].l1 < bt[t].l2 /\ HeldAccounts(t) = {bt[t].l1}
          /\ bt[t].pc \in DepositLocked => HeldAccounts(t) = {bt[t].l1, bt[t].l2}
          /\ bt[t].pc \notin DepositLocked \cup {"lock_l2"} => HeldAccounts(t) = {}
    /\ (phase = "bank" /\ failed = "none" /\ ~BankFinished) => ENABLED NextBank

C31_Witness ==
    /\ bt[1].pc = "lock_l1" /\ account_locks[0] = 2
    /\ bt[2].b1 = 1 /\ bt[2].b2 = 0
    /\ 2 \in done_balance
    /\ bt[3].pc \in {"sum", "sum_loop"}

\* the slots of the two tables that hold a key
Occupied(tab) == Cardinality(DOMAIN tab[0]) + Cardinality(DOMAIN tab[1])

\* C32: whenever no call is in progress, size() is the number of occupied slots
\* of the two tables.
C32_SizeIsOccupied ==
    AllIdle => current_size = Occupied(table)

\* C33: a thread holds no stripe lock when it is outside a call, at the head of
\* the loop of add (on entry, after a capacity-changed retry and after resize has
\* returned) and on entry to resize: every return of add, remove, contains and
\* resize has released the stripes the call locked.  With no call in progress
\* every stripe is free.
C33_LocksReleased ==
    /\ \A t \in Threads : th[t].pc \in {"idle", "load", "resize"} => Held(t) = {}
    /\ AllIdle => \A l \in DOMAIN locks : locks[l] = NoThread

C33_Witness ==
    \E t \in Threads, u \in Threads :
        /\ Finished(t, "add") /\ ~th[t].ret /\ th[t].resizes > 0
        /\ Held(t) = {}
        /\ Held(u) # {}

\* C34: a resize called by an add whose chain was exhausted at capacity c changes
\* the capacity only from c to 2c; when the capacity is no longer c by the time
\* the resize holds every stripe, it leaves the capacity and the tables alone.
\* Adds exhausted at the same capacity so double it once between them.
C34_OneDoublingPerCapacity ==
    [][\A t \in Threads :
          (th[t].pc = "rehash" /\ th'[t].pc = "load") =>
              IF capacity = th[t].current_cap
              THEN capacity' \in {capacity, 2 * capacity}
              ELSE capacity' = capacity /\ table' = table]_vars

\* ------------------------------------------------------ PhasedCuckooHashSet
\* PhasedCuckooHashSet<int> of claude-cuckoo-1.cpp.  The table is one array of
\* atomic<int>; add, remove and contains read the members capacity and table
\* without a lock, and resize replaces both while other threads run.  Every
\* statement that reads or writes shared memory is one step.

EMPTY == 0

\* the content of an element of a new[] array before anything is stored to it
Indeterminate == 0 - 2

numLocks == 32

\* hashSet(initialCapacity) of the run h
InitialCapacity(h) == 2

PThreads == {1, 2}

\* the keys of the calls of the one-caller run, and the number of its calls
PKeys == {0, 2, 4, 6}

PMaxOps == 3

\* what a load of an indeterminate element, or of one outside its array, returns
\* in the runs that are followed further: the memory was zero.  Every other
\* outcome of such a load ends the run that is checked (Fault).
GarbageValues == {EMPTY}

\* the runs that are checked, as rounds of calls; the calls of one round run
\* concurrently and the next round starts when they have returned.
\* 1: two threads add the same absent key, then one removes it and looks it up.
\* 2: one caller, PMaxOps calls of its choice.
\* 3: main adds 2, then one thread adds 4, which needs a resize, while the
\*    other adds 1, removes 2 or looks 2 up.
PHarnesses == {1, 2, 3}

NoCalls == [t \in PThreads |-> {}]

Rounds(h) ==
    IF h = 1
    THEN <<[t \in PThreads |-> {<<"add", 1>>}],
           [NoCalls EXCEPT ![1] = {<<"remove", 1>>}],
           [NoCalls EXCEPT ![1] = {<<"contains", 1>>}]>>
    ELSE IF h = 2
    THEN [r \in 1 .. PMaxOps |->
            [NoCalls EXCEPT ![1] = {"add", "remove", "contains"} \X PKeys]]
    ELSE <<[NoCalls EXCEPT ![1] = {<<"add", 2>>}],
           [NoCalls EXCEPT ![1] = {<<"add", 4>>},
                           ![2] = {<<"add", 1>>, <<"remove", 2>>, <<"contains", 2>>}]>>

\* std::hash<int> of libstdc++ is the identity (keys are not negative)
hashFunction(x) == x

hash0(x, cap) == hashFunction(x) % cap

hash1(x, cap) == (hashFunction(x) \div cap) % cap

\* the stripe of acquire(x) and release(x)
Stripe(x) == x % numLocks

\* one activation of add, remove, contains or resize
Frame(f, x, pc) ==
    [f |-> f, x |-> x, pc |-> pc, h0 |-> 0, h1 |-> 0, oldCapacity |-> 0,
     oldTable |-> << >>, i |-> 0]

IdlePhased == [stack |-> << >>, ret |-> FALSE, op |-> "none", x |-> EMPTY,
               called |-> FALSE, was |-> FALSE]

FreeLock == [owner |-> NoThread, count |-> 0]

\* table[h0] or table[h1] holds x, as contains computes it with no other thread
\* running
PContains(x) ==
    /\ x # EMPTY
    /\ \E h \in {hash0(x, pcapacity), hash1(x, pcapacity)} :
          h \in DOMAIN heap[ptable] /\ heap[ptable][h] = x

\* the constructor
PhasedInit ==
    /\ Constructed(InitCap)
    /\ phase = "phased"
    /\ harness = 0
    /\ NoBank
    /\ pharness \in PHarnesses
    /\ pcapacity = InitialCapacity(pharness)
    /\ heap = <<[j \in 0 .. (pcapacity - 1) |-> EMPTY]>>
    /\ ptable = 1
    /\ plocks = [l \in 0 .. (numLocks - 1) |-> FreeLock]
    /\ pth = [t \in PThreads |-> IdlePhased]
    /\ round = 1
    /\ pfailed = "none"
    /\ unmatched = 0
    /\ padded = {}
    /\ premoved = {}

striped == <<table, tsize, capacity, current_size, locks, th, abs, added, removed,
             successful_adds, successful_removes, initial_size, pre, phase, harness,
             bank>>

Top(t) == pth[t].stack[Len(pth[t].stack)]

\* thread t is at the statement pc of an activation of f
Running(t, f, pc) ==
    /\ pfailed = "none"
    /\ pth[t].stack # << >>
    /\ Top(t).f = f
    /\ Top(t).pc = pc

\* the activation on top goes on as fr
Goto(t, fr) == [pth EXCEPT ![t].stack[Len(pth[t].stack)] = fr]

\* the activation on top, going on as caller, calls callee
Calling(t, caller, callee) ==
    [pth EXCEPT ![t].stack = Append([pth[t].stack EXCEPT ![Len(pth[t].stack)] = caller],
                                    callee)]

\* the activation on top returns val; a call of the run that returns true is
\* recorded
PReturn(t, val) ==
    LET st == pth[t].stack
        outer == Len(st) = 1
    IN  /\ pth' = [pth EXCEPT ![t].stack = SubSeq(st, 1, Len(st) - 1), ![t].ret = val]
        /\ padded' = (IF outer /\ val /\ Top(t).f = "add" THEN padded \cup {Top(t).x}
                      ELSE padded)
        /\ premoved' = (IF outer /\ val /\ Top(t).f = "remove"
                        THEN premoved \cup {Top(t).x} ELSE premoved)

\* the values table[h].load() may return
TableLoad(h) ==
    IF h \notin DOMAIN heap[ptable] THEN GarbageValues
    ELSE IF heap[ptable][h] = Indeterminate THEN GarbageValues
    ELSE {heap[ptable][h]}

\* table[h].store(v); a store outside the array falls outside every array
TableStore(h, v) ==
    IF h \in DOMAIN heap[ptable] THEN [heap EXCEPT ![ptable][h] = v] ELSE heap

\* locks[x % numLocks].lock() of a recursive_mutex
Acquired(t, x) ==
    [plocks EXCEPT ![Stripe(x)] = [owner |-> t, count |-> plocks[Stripe(x)].count + 1]]

CanAcquire(t, x) == plocks[Stripe(x)].owner \in {NoThread, t}

\* one level of the mutex l given up
Unlocked(l) ==
    [plocks EXCEPT ![l] = IF plocks[l].count <= 1 THEN FreeLock
                          ELSE [plocks[l] EXCEPT !.count = plocks[l].count - 1]]

\* locks[x % numLocks].unlock(): by a thread that does not own the mutex it has
\* no effect or takes a level from the owner
Released(t, x) ==
    IF plocks[Stripe(x)].owner = t THEN {Unlocked(Stripe(x))}
    ELSE IF plocks[Stripe(x)].owner = NoThread THEN {plocks}
    ELSE {plocks, Unlocked(Stripe(x))}

Unmatched(t, x) == IF plocks[Stripe(x)].owner = t THEN 0 ELSE 1

\* ---- the calls of the run
\* a thread of the round makes its call
PInvoke(t, c) ==
    /\ pfailed = "none"
    /\ round <= Len(Rounds(pharness))
    /\ pth[t].stack = << >>
    /\ ~pth[t].called
    /\ c \in Rounds(pharness)[round][t]
    /\ pth' = [pth EXCEPT ![t] =
                 [stack |-> <<Frame(c[1], c[2],
                                    CASE c[1] = "add" -> "a_start"
                                      [] c[1] = "remove" -> "m_start"
                                      [] OTHER -> "c_hash")>>,
                  ret |-> FALSE, op |-> c[1], x |-> c[2], called |-> TRUE,
                  was |-> PContains(c[2])]]
    /\ padded' = (IF c[1] = "remove" THEN padded \ {c[2]} ELSE padded)
    /\ premoved' = (IF c[1] = "add" THEN premoved \ {c[2]} ELSE premoved)
    /\ UNCHANGED <<striped, heap, ptable, pcapacity, plocks, pharness, round, pfailed,
                   unmatched>>

\* the calls of the round have returned
NextRound ==
    /\ pfailed = "none"
    /\ round <= Len(Rounds(pharness))
    /\ \A t \in PThreads :
          /\ pth[t].stack = << >>
          /\ pth[t].called \/ Rounds(pharness)[round][t] = {}
    /\ round' = round + 1
    /\ pth' = [t \in PThreads |-> [pth[t] EXCEPT !.called = FALSE]]
    /\ UNCHANGED <<striped, heap, ptable, pcapacity, plocks, pharness, pfailed,
                   unmatched, padded, premoved>>

\* ---- contains (lines 213-223)
\* if (x == EMPTY) return false; h0 = hash0(x) % capacity; h1 = hash1(x) % capacity
ContainsHash(t) ==
    /\ Running(t, "contains", "c_hash")
    /\ IF Top(t).x = EMPTY
       THEN PReturn(t, FALSE)
       ELSE /\ pth' = Goto(t, [Top(t) EXCEPT !.h0 = hash0(Top(t).x, pcapacity),
                                             !.h1 = hash1(Top(t).x, pcapacity),
                                             !.pc = "c_load0"])
            /\ UNCHANGED <<padded, premoved>>
    /\ UNCHANGED <<striped, heap, ptable, pcapacity, plocks, pharness, round, pfailed,
                   unmatched>>

\* table[h0].load() == x || table[h1].load() == x
ContainsLoad(t) ==
    /\ \/ Running(t, "contains", "c_load0")
       \/ Running(t, "contains", "c_load1")
    /\ \E v \in TableLoad(IF Top(t).pc = "c_load0" THEN Top(t).h0 ELSE Top(t).h1) :
          IF v = Top(t).x THEN PReturn(t, TRUE)
          ELSE IF Top(t).pc = "c_load1" THEN PReturn(t, FALSE)
          ELSE /\ pth' = Goto(t, [Top(t) EXCEPT !.pc = "c_load1"])
               /\ UNCHANGED <<padded, premoved>>
    /\ UNCHANGED <<striped, heap, ptable, pcapacity, plocks, pharness, round, pfailed,
                   unmatched>>

\* ---- add (lines 135-182)
\* if (contains(x))
AddStart(t) ==
    /\ Running(t, "add", "a_start")
    /\ pth' = Calling(t, [Top(t) EXCEPT !.pc = "a_hash"],
                      Frame("contains", Top(t).x, "c_hash"))
    /\ UNCHANGED <<striped, heap, ptable, pcapacity, plocks, pharness, round, pfailed,
                   unmatched, padded, premoved>>

\* return false when contains found x; else h0, h1 and the test x != EMPTY
AddHash(t) ==
    /\ Running(t, "add", "a_hash")
    /\ IF pth[t].ret
       THEN PReturn(t, FALSE)
       ELSE /\ pth' = Goto(t, [Top(t) EXCEPT !.h0 = hash0(Top(t).x, pcapacity),
                                             !.h1 = hash1(Top(t).x, pcapacity),
                                             !.pc = IF Top(t).x # EMPTY THEN "a_acquire"
                                                    ELSE "a_release"])
            /\ UNCHANGED <<padded, premoved>>
    /\ UNCHANGED <<striped, heap, ptable, pcapacity, plocks, pharness, round, pfailed,
                   unmatched>>

\* acquire(x)
AddAcquire(t) ==
    /\ Running(t, "add", "a_acquire")
    /\ CanAcquire(t, Top(t).x)
    /\ plocks' = Acquired(t, Top(t).x)
    /\ pth' = Goto(t, [Top(t) EXCEPT !.pc = "a_load0"])
    /\ UNCHANGED <<striped, heap, ptable, pcapacity, pharness, round, pfailed,
                   unmatched, padded, premoved>>

\* the loads of lines 148, 152 and 156, one a step
AddLoad(t) ==
    /\ \/ Running(t, "add", "a_load0")
       \/ Running(t, "add", "a_load1")
       \/ Running(t, "add", "a_dup0")
       \/ Running(t, "add", "a_dup1")
    /\ LET fr == Top(t)
           h == IF fr.pc \in {"a_load0", "a_dup0"} THEN fr.h0 ELSE fr.h1
       IN  \E v \in TableLoad(h) :
             pth' = Goto(t, [fr EXCEPT !.pc =
                       CASE fr.pc = "a_load0" ->
                              (IF v = EMPTY THEN "a_store0" ELSE "a_load1")
                         [] fr.pc = "a_load1" ->
                              (IF v = EMPTY THEN "a_store1" ELSE "a_dup0")
                         [] fr.pc = "a_dup0" ->
                              (IF v = fr.x THEN "a_rel_false" ELSE "a_dup1")
                         [] OTHER ->
                              (IF v = fr.x THEN "a_rel_false" ELSE "a_rel_resize")])
    /\ UNCHANGED <<striped, heap, ptable, pcapacity, plocks, pharness, round, pfailed,
                   unmatched, padded, premoved>>

\* table[h0].store(x), table[h1].store(x)
AddStore(t) ==
    /\ \/ Running(t, "add", "a_store0")
       \/ Running(t, "add", "a_store1")
    /\ heap' = TableStore(IF Top(t).pc = "a_store0" THEN Top(t).h0 ELSE Top(t).h1,
                          Top(t).x)
    /\ pth' = Goto(t, [Top(t) EXCEPT !.pc = "a_rel_true"])
    /\ UNCHANGED <<striped, ptable, pcapacity, plocks, pharness, round, pfailed,
                   unmatched, padded, premoved>>

\* release(x) and what follows it: return true (lines 150-151, 154-155 and
\* 180-181), return false (157-158), resize() (164-165)
AddRelease(t) ==
    /\ \/ Running(t, "add", "a_rel_true")
       \/ Running(t, "add", "a_rel_false")
       \/ Running(t, "add", "a_rel_resize")
       \/ Running(t, "add", "a_release")
    /\ plocks' \in Released(t, Top(t).x)
    /\ unmatched' = unmatched + Unmatched(t, Top(t).x)
    /\ IF Top(t).pc = "a_rel_resize"
       THEN /\ pth' = Calling(t, [Top(t) EXCEPT !.pc = "a_again"],
                              Frame("resize", EMPTY, "r_start"))
            /\ UNCHANGED <<padded, premoved>>
       ELSE PReturn(t, Top(t).pc # "a_rel_false")
    /\ UNCHANGED <<striped, heap, ptable, pcapacity, pharness, round, pfailed>>

\* add(x) after resize() (line 166)
AddAgain(t) ==
    /\ Running(t, "add", "a_again")
    /\ pth' = Calling(t, [Top(t) EXCEPT !.pc = "a_true"], Frame("add", Top(t).x, "a_start"))
    /\ UNCHANGED <<striped, heap, ptable, pcapacity, plocks, pharness, round, pfailed,
                   unmatched, padded, premoved>>

\* return true (line 167)
AddTrue(t) ==
    /\ Running(t, "add", "a_true")
    /\ PReturn(t, TRUE)
    /\ UNCHANGED <<striped, heap, ptable, pcapacity, plocks, pharness, round, pfailed,
                   unmatched>>

\* ---- remove (lines 184-211)
\* if (x == EMPTY) return false; acquire(x)
RemoveAcquire(t) ==
    /\ Running(t, "remove", "m_start")
    /\ IF Top(t).x = EMPTY
       THEN PReturn(t, FALSE) /\ UNCHANGED plocks
       ELSE /\ CanAcquire(t, Top(t).x)
            /\ plocks' = Acquired(t, Top(t).x)
            /\ pth' = Goto(t, [Top(t) EXCEPT !.pc = "m_hash"])
            /\ UNCHANGED <<padded, premoved>>
    /\ UNCHANGED <<striped, heap, ptable, pcapacity, pharness, round, pfailed,
                   unmatched>>

\* h0 = hash0(x) % capacity; h1 = hash1(x) % capacity
RemoveHash(t) ==
    /\ Running(t, "remove", "m_hash")
    /\ pth' = Goto(t, [Top(t) EXCEPT !.h0 = hash0(Top(t).x, pcapacity),
                                     !.h1 = hash1(Top(t).x, pcapacity),
                                     !.pc = "m_load0"])
    /\ UNCHANGED <<striped, heap, ptable, pcapacity, plocks, pharness, round, pfailed,
                   unmatched, padded, premoved>>

\* table[h0].load() == x, table[h1].load() == x
RemoveLoad(t) ==
    /\ \/ Running(t, "remove", "m_load0")
       \/ Running(t, "remove", "m_load1")
    /\ LET fr == Top(t)
       IN  \E v \in TableLoad(IF fr.pc = "m_load0" THEN fr.h0 ELSE fr.h1) :
             pth' = Goto(t, [fr EXCEPT !.pc =
                       IF fr.pc = "m_load0"
                       THEN (IF v = fr.x THEN "m_store0" ELSE "m_load1")
                       ELSE (IF v = fr.x THEN "m_store1" ELSE "m_rel_false")])
    /\ UNCHANGED <<striped, heap, ptable, pcapacity, plocks, pharness, round, pfailed,
                   unmatched, padded, premoved>>

\* table[h0].store(EMPTY), table[h1].store(EMPTY)
RemoveStore(t) ==
    /\ \/ Running(t, "remove", "m_store0")
       \/ Running(t, "remove", "m_store1")
    /\ heap' = TableStore(IF Top(t).pc = "m_store0" THEN Top(t).h0 ELSE Top(t).h1,
                          EMPTY)
    /\ pth' = Goto(t, [Top(t) EXCEPT !.pc = "m_rel_true"])
    /\ UNCHANGED <<striped, ptable, pcapacity, plocks, pharness, round, pfailed,
                   unmatched, padded, premoved>>

\* release(x); return
RemoveRelease(t) ==
    /\ \/ Running(t, "remove", "m_rel_true")
       \/ Running(t, "remove", "m_rel_false")
    /\ plocks' \in Released(t, Top(t).x)
    /\ unmatched' = unmatched + Unmatched(t, Top(t).x)
    /\ PReturn(t, Top(t).pc = "m_rel_true")
    /\ UNCHANGED <<striped, heap, ptable, pcapacity, pharness, round, pfailed>>

\* ---- resize (lines 37-68)
\* oldCapacity = capacity; oldTable = new std::atomic<T>[capacity]
ResizeStart(t) ==
    /\ Running(t, "resize", "r_start")
    /\ pth' = Goto(t, [Top(t) EXCEPT !.oldCapacity = pcapacity,
                                     !.oldTable = [j \in 0 .. (pcapacity - 1) |->
                                                      Indeterminate],
                                     !.i = 0, !.pc = "r_copy"])
    /\ UNCHANGED <<striped, heap, ptable, pcapacity, plocks, pharness, round, pfailed,
                   unmatched, padded, premoved>>

\* for (i < capacity) oldTable[i].store(table[i].load()); a store past the end of
\* oldTable falls outside every array
ResizeCopy(t) ==
    /\ Running(t, "resize", "r_copy")
    /\ LET fr == Top(t)
       IN  IF fr.i < pcapacity
           THEN \E v \in TableLoad(fr.i) :
                  pth' = Goto(t, [fr EXCEPT !.oldTable =
                                               IF fr.i \in DOMAIN fr.oldTable
                                               THEN [fr.oldTable EXCEPT ![fr.i] = v]
                                               ELSE fr.oldTable,
                                            !.i = fr.i + 1])
           ELSE pth' = Goto(t, [fr EXCEPT !.pc = "r_double"])
    /\ UNCHANGED <<striped, heap, ptable, pcapacity, plocks, pharness, round, pfailed,
                   unmatched, padded, premoved>>

\* capacity *= 2
ResizeDouble(t) ==
    /\ Running(t, "resize", "r_double")
    /\ pcapacity' = 2 * pcapacity
    /\ pth' = Goto(t, [Top(t) EXCEPT !.pc = "r_alloc"])
    /\ UNCHANGED <<striped, heap, ptable, plocks, pharness, round, pfailed,
                   unmatched, padded, premoved>>

\* table = new std::atomic<T>[capacity]; the array replaced is not deleted
ResizeAlloc(t) ==
    /\ Running(t, "resize", "r_alloc")
    /\ heap' = Append(heap, [j \in 0 .. (pcapacity - 1) |-> Indeterminate])
    /\ ptable' = Len(heap) + 1
    /\ pth' = Goto(t, [Top(t) EXCEPT !.i = 0, !.pc = "r_init"])
    /\ UNCHANGED <<striped, pcapacity, plocks, pharness, round, pfailed,
                   unmatched, padded, premoved>>

\* for (i < capacity) table[i].store(EMPTY)
ResizeInit(t) ==
    /\ Running(t, "resize", "r_init")
    /\ IF Top(t).i < pcapacity
       THEN /\ heap' = TableStore(Top(t).i, EMPTY)
            /\ pth' = Goto(t, [Top(t) EXCEPT !.i = Top(t).i + 1])
       ELSE /\ pth' = Goto(t, [Top(t) EXCEPT !.i = 0, !.pc = "r_rehash"])
            /\ UNCHANGED heap
    /\ UNCHANGED <<striped, ptable, pcapacity, plocks, pharness, round, pfailed,
                   unmatched, padded, premoved>>

\* the elements of oldTable from i on that are not EMPTY
Live(fr) ==
    {j \in DOMAIN fr.oldTable : j >= fr.i /\ j < fr.oldCapacity /\ fr.oldTable[j] # EMPTY}

\* for (i < oldCapacity) if (val != EMPTY) add(val); delete[] oldTable
ResizeRehash(t) ==
    /\ Running(t, "resize", "r_rehash")
    /\ IF Live(Top(t)) # {}
       THEN LET j == CHOOSE k \in Live(Top(t)) : \A m \in Live(Top(t)) : k <= m
            IN  /\ pth' = Calling(t, [Top(t) EXCEPT !.i = j + 1],
                                  Frame("add", Top(t).oldTable[j], "a_start"))
                /\ UNCHANGED <<padded, premoved>>
       ELSE PReturn(t, pth[t].ret)
    /\ UNCHANGED <<striped, heap, ptable, pcapacity, plocks, pharness, round, pfailed,
                   unmatched>>

\* the element of table that the next step of thread t loads
Loaded(t) ==
    LET fr == Top(t)
    IN  IF fr.pc \in {"c_load0", "a_load0", "a_dup0", "m_load0"} THEN {fr.h0}
        ELSE IF fr.pc \in {"c_load1", "a_load1", "a_dup1", "m_load1"} THEN {fr.h1}
        ELSE IF fr.pc = "r_copy" /\ fr.i < pcapacity THEN {fr.i}
        ELSE {}

\* the element of table that the next step of thread t stores to
Stored(t) ==
    LET fr == Top(t)
    IN  IF fr.pc \in {"a_store0", "m_store0"} THEN {fr.h0}
        ELSE IF fr.pc \in {"a_store1", "m_store1"} THEN {fr.h1}
        ELSE IF fr.pc = "r_init" /\ fr.i < pcapacity THEN {fr.i}
        ELSE {}

\* a load or store past the end of its array, and a load of an element that was
\* never stored to, may do anything: the run is not followed further
Fault(t) ==
    /\ pfailed = "none"
    /\ pth[t].stack # << >>
    /\ \/ /\ \/ \E h \in Loaded(t) \cup Stored(t) : h \notin DOMAIN heap[ptable]
             \/ /\ Top(t).pc = "r_copy" /\ Top(t).i < pcapacity
                /\ Top(t).i \notin DOMAIN Top(t).oldTable
          /\ pfailed' = "out of bounds"
       \/ /\ \E h \in Loaded(t) :
                h \in DOMAIN heap[ptable] /\ heap[ptable][h] = Indeterminate
          /\ pfailed' = "indeterminate value"
    /\ UNCHANGED <<striped, heap, ptable, pcapacity, plocks, pth, pharness, round,
                   unmatched, padded, premoved>>

NextPhased ==
    \/ \E t \in PThreads : \E c \in {"add", "remove", "contains"} \X (PKeys \cup {1}) :
          PInvoke(t, c)
    \/ NextRound
    \/ \E t \in PThreads : ContainsHash(t)
    \/ \E t \in PThreads : ContainsLoad(t)
    \/ \E t \in PThreads : AddStart(t)
    \/ \E t \in PThreads : AddHash(t)
    \/ \E t \in PThreads : AddAcquire(t)
    \/ \E t \in PThreads : AddLoad(t)
    \/ \E t \in PThreads : AddStore(t)
    \/ \E t \in PThreads : AddRelease(t)
    \/ \E t \in PThreads : AddAgain(t)
    \/ \E t \in PThreads : AddTrue(t)
    \/ \E t \in PThreads : RemoveAcquire(t)
    \/ \E t \in PThreads : RemoveHash(t)
    \/ \E t \in PThreads : RemoveLoad(t)
    \/ \E t \in PThreads : RemoveStore(t)
    \/ \E t \in PThreads : RemoveRelease(t)
    \/ \E t \in PThreads : ResizeStart(t)
    \/ \E t \in PThreads : ResizeCopy(t)
    \/ \E t \in PThreads : ResizeDouble(t)
    \/ \E t \in PThreads : ResizeAlloc(t)
    \/ \E t \in PThreads : ResizeInit(t)
    \/ \E t \in PThreads : ResizeRehash(t)
    \/ \E t \in PThreads : Fault(t)

SpecPhased == PhasedInit /\ [][NextPhased]_vars

PQuiet == \A t \in PThreads : pth[t].stack = << >>

\* the elements of the table that hold x
PCopies(x) == Cardinality({h \in DOMAIN heap[ptable] : heap[ptable][h] = x})

\* C35: when two threads have added the same absent key at the same time, one of
\* the two calls has returned true and the other false, and the key is in one
\* element of the table; the contains that follows one remove of the key
\* returns false.
C35_OneAddWins ==
    pharness = 1 =>
        /\ (round = 1 /\ PQuiet /\ \A t \in PThreads : pth[t].called) =>
                /\ pth[1].ret # pth[2].ret
                /\ PCopies(1) = 1
        /\ (round = 3 /\ PQuiet /\ pth[1].called) => ~pth[1].ret

\* C36: with one caller, an add that has returned has returned true exactly
\* when its key was not in the table before the call; after an add that
\* returned true the key is found, by the table lookup of contains and by every
\* contains called while the key has not been removed; and no release has been
\* called on a lock the caller did not hold.
C36_SerialAdd ==
    pharness = 2 =>
        /\ unmatched = 0
        /\ (PQuiet /\ pth[1].called /\ pth[1].op = "add") =>
                /\ pth[1].ret = ~pth[1].was
                /\ pth[1].ret => PContains(pth[1].x)
        /\ (PQuiet /\ pth[1].called /\ pth[1].op = "contains"
               /\ pth[1].x \in padded) => pth[1].ret

\* C37: whenever no call is in progress, every key whose add returned true and
\* that no remove has been called on since is found by contains, and no key
\* whose remove returned true and that no add has been called on since is
\* found, also when another thread has run a resize meanwhile.
C37_ResizeKeepsKeys ==
    (pharness = 3 /\ PQuiet /\ pfailed = "none") =>
        /\ \A k \in padded : PContains(k)
        /\ \A k \in premoved : ~PContains(k)

\* ------------------------------------------------- double_shared_lock, again
\* a thread between the return of lock_deposit and the decrement of its
\* unlock_deposit
InDepositMode(t) ==
    bt[t].pc \in {"lookup", "update1", "update2", "ud_read", "ud_cas", "ud_mutex",
                  "ud_dec"}

\* a thread between a register_balance that returned true and the end of its
\* complete_balance
InBalanceMode(t) == bt[t].pc \in {"sum", "sum_loop", "complete", "cb_locked"}

\* C38: no thread holds the double_shared_lock in deposit mode while another
\* holds it in balance mode; deposit_ops counts the threads in deposit mode, and
\* at most one thread is in balance mode.
C38_ModesExclusive ==
    /\ \A t, u \in BankThreads : ~(InDepositMode(t) /\ InBalanceMode(u))
    /\ deposit_ops = Cardinality({t \in BankThreads : InDepositMode(t)})
    /\ \A t, u \in BankThreads : InBalanceMode(t) /\ InBalanceMode(u) => t = u
    /\ (\E t \in BankThreads : InBalanceMode(t)) => is_balanced_locked

C38_Witness ==
    /\ InDepositMode(1) /\ InDepositMode(2) /\ deposit_ops = 2
    /\ bt[2].pc = "lookup" /\ bt[2].before = 1
    /\ 3 \in done_deposits

\* a register_balance that found the balance lock held and has pushed its result
Joined(t) == bt[t].pc \in {"rb_notif", "rn_woken"}

\* complete_balance has written the result of a register_balance that joined
Notified(t) == Joined(t) /\ \A i \in DOMAIN notifications : notifications[i] # t

\* what parallel_sum can return
BalanceValues == {0 - 1} \cup {(TOTAL_BAL \div k) * k : k \in KeyMaxes}

\* C39: unless the process exits first, a register_balance that found the
\* balance lock held returns (false) with the value the holder passed to
\* complete_balance, whichever value that is, and does not wait again once that
\* value is written; and a register_balance that waits for the deposits to
\* finish goes on.
C39_WaitersProceed ==
    /\ \A t \in BankThreads :
          Joined(t) ~> (bt[t].pc = "returned" \/ failed # "none")
    /\ \A t \in BankThreads : \A v \in BalanceValues :
          (Notified(t) /\ bt[t].total = v)
              ~> ((bt[t].pc = "returned" /\ bt[t].total = v) \/ failed # "none")
    /\ [][\A t \in BankThreads :
            (Notified(t) /\ bt[t].pc = "rb_notif" /\ bt'[t].pc # "rb_notif")
                => bt'[t].pc = "returned"]_vars
    /\ \A t \in BankThreads :
          bt[t].pc = "rb_woken" ~> (bt[t].pc \in {"rb_notif", "sum"} \/ failed # "none")

====
